---- MODULE Spec2Model ----
(***************************************************************************)
(* The validator orchestrator of core-rs-albatross                          *)
(* (validator/src/validator.rs) as a state machine.                         *)
(*                                                                          *)
(* `this` holds the fields of `Validator` (and the tasks it has handed to   *)
(* the executor with spawn); the other variables are the collaborators it   *)
(* reads and drives: the blockchain, the consensus proxy, the event         *)
(* streams, the mempool executors and the network.  One poll pass of the    *)
(* future walks `pc` through the streams in the order of Validator::poll;   *)
(* every step of a pass handles one ready item of the current stream to     *)
(* completion.                                                              *)
(***************************************************************************)
EXTENDS Integers, Sequences, FiniteSets, TLC

VARIABLES
    head,                     \* blockchain.block_number()
    fork,                     \* distinguishes sibling blocks: head_hash = <<head, fork>>
    band,                     \* current_validators().get_slot_band_by_address(our address)
    can_enforce,              \* blockchain.can_enforce_validity_window()
    staking,                  \* what get_staking_state reads from the staking contract
    is_established,           \* consensus.is_established()
    consensus_event_rx,       \* ready items of the consensus event stream
    blockchain_event_rx,      \* ready items of the blockchain event stream
    pc,                       \* position of the current poll pass
    this,                     \* the Validator
    executors,                \* whether the mempool executors are running
    votes,                    \* votes the macro producer has put on the network
    published,                \* publish calls issued to the network
    failed,                   \* publish calls the network has answered with an error
    conversion,               \* a call of byte_from_le_bits: its input and what it returned
    history,                  \* transaction hashes the history store has in the validity window
    aggregation,              \* TendermintContributions held by the vote aggregation
    fork_event_rx,            \* ready items of the fork event stream
    network_event_rx,         \* ready items of the network event stream
    blocks,                   \* equivocation proofs in the body of each block the chain stores
    validated                 \* validate_message calls issued to the network, in order

vars == <<head, fork, band, can_enforce, staking, is_established, consensus_event_rx,
          blockchain_event_rx, pc, this, executors, votes, published, failed, conversion, history,
          aggregation, fork_event_rx, network_event_rx, blocks, validated>>

chain == <<head, fork, band, can_enforce, staking, blockchain_event_rx>>

(***************************************************************************)
(* Bounds of the model.                                                     *)
(***************************************************************************)
MaxHead == 4        \* the chain is followed up to this block number
MaxQueue == 2       \* ready items held by one event stream
MaxStep == 2        \* round/step checkpoints of one Tendermint height
MaxTasks == 1       \* spawned tasks of one kind that have not finished
MaxSlot == 2        \* validator ids (slot indices) are 0..MaxSlot
MaxProposals == 1   \* proposal events a macro producer holds ready
MaxChain == 3       \* blocks in one list of a Rebranched event
MaxBacklog == 2     \* spawned tasks of one kind that wait where a backlog is followed

(***************************************************************************)
(* Option<T>: None is the empty tuple, Some(x) the one-element tuple.       *)
(***************************************************************************)
None == <<>>
Some(x) == <<x>>
IsSome(o) == o # <<>>
Unwrap(o) == o[1]

Range(seq) == {seq[i] : i \in DOMAIN seq}

\* No call of byte_from_le_bits is under way.
NoConversion == [bits |-> <<>>, overflow_checks |-> FALSE, returned |-> None]

(***************************************************************************)
(* Policy (nimiq_primitives) and BlockType::of.                             *)
(***************************************************************************)
BlocksPerBatch == 2
BatchesPerEpoch == 2
blocks_per_epoch == BlocksPerBatch * BatchesPerEpoch
JailBlocks == 2
block_after_jail(jailed_from) == jailed_from + JailBlocks + 1

BlockTypeOf(n) == IF n % BlocksPerBatch = 0 THEN "Macro" ELSE "Micro"
IsElection(n) == n % blocks_per_epoch = 0

SlotBand == 5
Bands == {None, Some(SlotBand)}

HeadHash == <<head, fork>>


(***************************************************************************)
(* The staking contract as get_staking_state sees it.                       *)
(***************************************************************************)
JailedFrom == 1
StakingViews ==
    { [complete |-> FALSE, registered |-> FALSE, inactive |-> FALSE, jailed_from |-> None],
      [complete |-> TRUE,  registered |-> FALSE, inactive |-> FALSE, jailed_from |-> None],
      [complete |-> TRUE,  registered |-> TRUE,  inactive |-> FALSE, jailed_from |-> None],
      [complete |-> TRUE,  registered |-> TRUE,  inactive |-> TRUE,  jailed_from |-> None],
      [complete |-> TRUE,  registered |-> TRUE,  inactive |-> TRUE,
       jailed_from |-> Some(JailedFrom)] }

get_staking_state ==
    IF ~staking.complete THEN [tag |-> "Unknown", jailed_from |-> None]
    ELSE IF ~staking.registered THEN [tag |-> "NoStake", jailed_from |-> None]
    ELSE IF staking.inactive THEN [tag |-> "Inactive", jailed_from |-> staking.jailed_from]
    ELSE [tag |-> "Active", jailed_from |-> None]

(***************************************************************************)
(* Equivocation proofs and the EquivocationProofPool of ConsensusState: a   *)
(* set of proofs with one proof per locator at most.  apply_block consumes  *)
(* the proofs a block includes, revert_block restores them, the selection   *)
(* for a block takes proofs lowest locator first while their serialized     *)
(* sizes fit.                                                               *)
(***************************************************************************)
EQUIVOCATION_PROOFS_MAX_SIZE == 1000

Proofs == {[locator |-> 1, size |-> 600], [locator |-> 2, size |-> 700]}
Locators == {proof.locator : proof \in Proofs}

Hashes == (0..MaxHead) \X {0, 1}

\* blockchain.get_block(hash, true), as far as the orchestrator looks at it.
get_block(hash) == [hash |-> hash, proofs |-> blocks[hash]]

EquivocationProofPool_new == {}

insert(pool, proof) ==
    IF \E known \in pool : known.locator = proof.locator THEN pool
    ELSE pool \cup {proof}

apply_block(pool, block) ==
    {known \in pool : \A proof \in block.proofs : proof.locator # known.locator}

revert_block(pool, block) ==
    pool \cup {proof \in block.proofs : \A known \in pool : known.locator # proof.locator}

RECURSIVE select_proofs(_, _, _, _, _)
select_proofs(pool, locator, selected, size, max_size) ==
    IF \A proof \in pool : proof.locator < locator THEN selected
    ELSE LET next == {proof \in pool : proof.locator = locator} IN
         IF next = {} THEN select_proofs(pool, locator + 1, selected, size, max_size)
         ELSE LET proof == CHOOSE proof \in next : TRUE IN
              IF size + proof.size > max_size THEN selected
              ELSE select_proofs(pool, locator + 1, Append(selected, proof),
                                 size + proof.size, max_size)

get_equivocation_proofs_for_block(pool, max_size) ==
    select_proofs(pool, 1, <<>>, 0, max_size)

(***************************************************************************)
(* The producers the orchestrator owns.  A macro producer runs Tendermint   *)
(* for one height: `step` counts its round/step checkpoints, `dirty` says   *)
(* the checkpoint has changed and has not been yielded as an Update yet,    *)
(* `decided` that the Decision has been yielded.  A state resumed from      *)
(* storage is used only when it is for the producer's own height.           *)
(***************************************************************************)
ProduceMacroBlock_new(slot_band, next_block_number, state) ==
    IF IsSome(state) /\ Unwrap(state).block_number = next_block_number
    THEN [bn |-> next_block_number, slot_band |-> slot_band,
          step |-> Unwrap(state).step, dirty |-> FALSE, decided |-> FALSE,
          proposals |-> <<>>]
    ELSE [bn |-> next_block_number, slot_band |-> slot_band,
          step |-> 0, dirty |-> FALSE, decided |-> FALSE, proposals |-> <<>>]

ProduceMicroBlock_new(slot_band, equivocation_proofs, next_block_number) ==
    [bn |-> next_block_number, slot_band |-> slot_band,
     equivocation_proofs |-> equivocation_proofs, done |-> FALSE]

(***************************************************************************)
(* Validator::new: the fields after construction, with the MacroState read  *)
(* from the table (database holds the value under key validatorState).      *)
(***************************************************************************)
\* The producer signs and sends votes of a checkpoint it has yielded as an
\* Update (or was constructed with), never of one it has yet to yield.
ProduceMacroBlock_votes(producer) == ~producer.dirty /\ ~producer.decided

\* Tendermint decides after it has left its first checkpoint.
ProduceMacroBlock_decides(producer) ==
    ~producer.dirty /\ ~producer.decided /\ producer.step >= 1

\* Validator::new that starts from no MacroState whatever the table holds.
Validator_new_forgets(database, automatic_reactivate) ==
    [ database |-> database,
      consensus_established |-> FALSE,
      validity_window_synced |-> FALSE,
      slot_band |-> None,
      validator_state |-> None,
      automatic_reactivate |-> automatic_reactivate,
      macro_producer |-> None,
      macro_state |-> None,
      micro_producer |-> None,
      mempool_active |-> FALSE,
      mempool_tasks |-> <<>>,
      publish_tasks |-> <<>>,
      reactivate_tasks |-> <<>>,
      dht_tasks |-> <<>>,
      equivocation_proofs |-> EquivocationProofPool_new,
      mempool_calls |-> <<>> ]

Validator_new(database, automatic_reactivate) ==
    [ database |-> database,
      consensus_established |-> FALSE,
      validity_window_synced |-> FALSE,
      slot_band |-> None,
      validator_state |-> None,
      automatic_reactivate |-> automatic_reactivate,
      macro_producer |-> None,
      macro_state |-> database,
      micro_producer |-> None,
      mempool_active |-> FALSE,
      mempool_tasks |-> <<>>,       \* spawned start/stop_executors tasks, not yet run
      publish_tasks |-> <<>>,       \* spawned publish_block tasks, not yet finished
      reactivate_tasks |-> <<>>,    \* spawned send_transaction tasks, not yet run
      dht_tasks |-> <<>>,           \* spawned set_public_key tasks, not yet run
      equivocation_proofs |-> EquivocationProofPool_new,   \* consensus_state's pool
      mempool_calls |-> <<>> ]      \* calls made on the mempool that it has yet to execute

is_elected(s) == IsSome(s.slot_band)

is_synced(s) == s.consensus_established /\ s.validity_window_synced

validator_slot_band(s) == Unwrap(s.slot_band)

(***************************************************************************)
(* init_epoch.  in_window is the answer of                                  *)
(* history_store.tx_in_validity_window for the recorded transaction.        *)
(***************************************************************************)
\* init_epoch without the check of the recorded reactivation transaction.
init_epoch_keeps(s, in_window) ==
    LET s1 == [s EXCEPT !.slot_band = None] IN
    IF ~is_synced(s1) THEN s1
    ELSE [s1 EXCEPT !.slot_band = band]

init_epoch(s, in_window) ==
    LET s1 == [s EXCEPT !.slot_band = None] IN
    IF ~is_synced(s1) THEN s1
    ELSE
      LET s2 == IF /\ IsSome(s1.validator_state)
                   /\ get_staking_state.tag = "Inactive"
                   /\ head >= Unwrap(s1.validator_state).inactive_tx_validity_window_start
                                + blocks_per_epoch
                   /\ ~in_window
                THEN [s1 EXCEPT !.validator_state = None]
                ELSE s1
      IN [s2 EXCEPT !.slot_band = band]

\* init_block_producer without the two assignments that drop the old producers.
init_block_producer_keeps(s, head_hash) ==
    IF ~is_elected(s) \/ ~is_synced(s) THEN s
    ELSE IF IsSome(head_hash) /\ HeadHash # Unwrap(head_hash) THEN s
    ELSE
      LET next_block_number == head + 1 IN
      IF BlockTypeOf(next_block_number) = "Macro"
      THEN [s EXCEPT !.macro_producer =
                Some(ProduceMacroBlock_new(validator_slot_band(s), next_block_number,
                                           s.macro_state))]
      ELSE
        LET equivocation_proofs ==
                get_equivocation_proofs_for_block(s.equivocation_proofs,
                                                  EQUIVOCATION_PROOFS_MAX_SIZE)
        IN [s EXCEPT !.micro_producer =
                Some(ProduceMicroBlock_new(validator_slot_band(s), equivocation_proofs,
                                           next_block_number))]

\* init_block_producer with twice the limit on the proofs of a micro block.
init_block_producer_twice(s, head_hash) ==
    LET s1 == [s EXCEPT !.macro_producer = None, !.micro_producer = None] IN
    IF ~is_elected(s1) \/ ~is_synced(s1) THEN s1
    ELSE IF IsSome(head_hash) /\ HeadHash # Unwrap(head_hash) THEN s1
    ELSE
      LET next_block_number == head + 1 IN
      IF BlockTypeOf(next_block_number) = "Macro"
      THEN [s1 EXCEPT !.macro_producer =
                Some(ProduceMacroBlock_new(validator_slot_band(s1), next_block_number,
                                           s1.macro_state))]
      ELSE
        LET equivocation_proofs ==
                get_equivocation_proofs_for_block(s1.equivocation_proofs,
                                                  2 * EQUIVOCATION_PROOFS_MAX_SIZE)
        IN [s1 EXCEPT !.micro_producer =
                Some(ProduceMicroBlock_new(validator_slot_band(s1), equivocation_proofs,
                                           next_block_number))]

\* init_block_producer without the check of the head hash.
init_block_producer_obsolete(s, head_hash) ==
    LET s1 == [s EXCEPT !.macro_producer = None, !.micro_producer = None] IN
    IF ~is_elected(s1) \/ ~is_synced(s1) THEN s1
    ELSE
      LET next_block_number == head + 1 IN
      IF BlockTypeOf(next_block_number) = "Macro"
      THEN [s1 EXCEPT !.macro_producer =
                Some(ProduceMacroBlock_new(validator_slot_band(s1), next_block_number,
                                           s1.macro_state))]
      ELSE
        LET equivocation_proofs ==
                get_equivocation_proofs_for_block(s1.equivocation_proofs,
                                                  EQUIVOCATION_PROOFS_MAX_SIZE)
        IN [s1 EXCEPT !.micro_producer =
                Some(ProduceMicroBlock_new(validator_slot_band(s1), equivocation_proofs,
                                           next_block_number))]

init_block_producer(s, head_hash) ==
    LET s1 == [s EXCEPT !.macro_producer = None, !.micro_producer = None] IN
    IF ~is_elected(s1) \/ ~is_synced(s1) THEN s1
    ELSE IF IsSome(head_hash) /\ HeadHash # Unwrap(head_hash) THEN s1
    ELSE
      LET next_block_number == head + 1 IN
      IF BlockTypeOf(next_block_number) = "Macro"
      THEN [s1 EXCEPT !.macro_producer =
                Some(ProduceMacroBlock_new(validator_slot_band(s1), next_block_number,
                                           s1.macro_state))]
      ELSE
        LET equivocation_proofs ==
                get_equivocation_proofs_for_block(s1.equivocation_proofs,
                                                  EQUIVOCATION_PROOFS_MAX_SIZE)
        IN [s1 EXCEPT !.micro_producer =
                Some(ProduceMicroBlock_new(validator_slot_band(s1), equivocation_proofs,
                                           next_block_number))]

init_mempool(s) ==
    IF s.mempool_active \/ ~is_synced(s) THEN s
    ELSE [s EXCEPT !.mempool_tasks = Append(@, "start"), !.mempool_active = TRUE]

\* init with the block producer initialised before the epoch.
init_producer_first(s, head_hash, in_window) ==
    init_mempool(init_epoch(init_block_producer(s, head_hash), in_window))

init(s, head_hash, in_window) ==
    init_block_producer(init_mempool(init_epoch(s, in_window)), head_hash)

\* pause without the stop of the mempool executors.
pause_keeps_mempool(s) ==
    [s EXCEPT !.slot_band = None, !.macro_producer = None, !.micro_producer = None]

pause(s) ==
    LET s1 == [s EXCEPT !.slot_band = None, !.macro_producer = None,
                        !.micro_producer = None] IN
    IF ~s1.mempool_active THEN s1
    ELSE [s1 EXCEPT !.mempool_tasks = Append(@, "stop"), !.mempool_active = FALSE]

update_consensus_state(s, head_hash, in_window) ==
    LET was_synced == is_synced(s)
        s1 == [s EXCEPT !.consensus_established = is_established,
                        !.validity_window_synced = can_enforce]
    IN IF ~was_synced /\ is_synced(s1) THEN init(s1, head_hash, in_window)
       ELSE IF was_synced /\ ~is_synced(s1) THEN pause(s1)
       ELSE s1

(***************************************************************************)
(* Blockchain events.  A handler leaves the update and cleanup calls it      *)
(* makes on the mempool in mempool_calls, with the hashes of the blocks     *)
(* passed; the mempool executes them before the handler returns, and what   *)
(* it holds afterwards is not part of this model.                           *)
(***************************************************************************)
mempool_update(s, adopted_blocks, reverted_blocks) ==
    [s EXCEPT !.mempool_calls =
        Append(@, [op |-> "update", adopted |-> adopted_blocks,
                   reverted |-> reverted_blocks])]

mempool_cleanup(s) ==
    [s EXCEPT !.mempool_calls =
        Append(@, [op |-> "cleanup", adopted |-> <<>>, reverted |-> <<>>])]

mempool_executes(s) == [s EXCEPT !.mempool_calls = <<>>]

\* on_blockchain_extended without the call of init_block_producer.
on_blockchain_extended_keeps(s, hash) ==
    LET block == get_block(hash)
        s1 == [s EXCEPT !.equivocation_proofs = apply_block(@, block)]
    IN IF is_synced(s1) THEN mempool_update(s1, <<hash>>, <<>>) ELSE s1

\* on_blockchain_extended with the mempool updated whether synced or not.
on_blockchain_extended_updates(s, hash) ==
    LET block == get_block(hash)
        s1 == [s EXCEPT !.equivocation_proofs = apply_block(@, block)]
        s2 == mempool_update(s1, <<hash>>, <<>>)
    IN init_block_producer(s2, Some(hash))

on_blockchain_extended(s, hash) ==
    LET block == get_block(hash)
        s1 == [s EXCEPT !.equivocation_proofs = apply_block(@, block)]
        s2 == IF is_synced(s1) THEN mempool_update(s1, <<hash>>, <<>>) ELSE s1
    IN init_block_producer(s2, Some(hash))

on_blockchain_history_adopted(s, hash) ==
    IF is_synced(s) THEN mempool_cleanup(s) ELSE s

\* The two loops of on_blockchain_rebranched over a chain, in list order.
\* The loop over the old chain leaving after its first block.
revert_blocks_first(pool, chain_blocks) ==
    IF chain_blocks = <<>> THEN pool ELSE revert_block(pool, Head(chain_blocks))

RECURSIVE revert_blocks(_, _)
revert_blocks(pool, chain_blocks) ==
    IF chain_blocks = <<>> THEN pool
    ELSE revert_blocks(revert_block(pool, Head(chain_blocks)), Tail(chain_blocks))

RECURSIVE apply_blocks(_, _)
apply_blocks(pool, chain_blocks) ==
    IF chain_blocks = <<>> THEN pool
    ELSE apply_blocks(apply_block(pool, Head(chain_blocks)), Tail(chain_blocks))

BlockHashes(chain_blocks) == [i \in DOMAIN chain_blocks |-> chain_blocks[i].hash]

\* on_blockchain_rebranched with the new chain applied before the old chain is
\* reverted.
on_blockchain_rebranched_applies_first(s, old_chain, new_chain) ==
    LET applied == apply_blocks(s.equivocation_proofs, new_chain)
        reverted == revert_blocks(applied, old_chain)
        s1 == [s EXCEPT !.equivocation_proofs = reverted]
        s2 == IF is_synced(s1)
              THEN mempool_update(s1, BlockHashes(new_chain), BlockHashes(old_chain))
              ELSE s1
        head_hash == new_chain[Len(new_chain)].hash
    IN init_block_producer(s2, Some(head_hash))

on_blockchain_rebranched(s, old_chain, new_chain) ==
    LET reverted == revert_blocks(s.equivocation_proofs, old_chain)
        applied == apply_blocks(reverted, new_chain)
        s1 == [s EXCEPT !.equivocation_proofs = applied]
        s2 == IF is_synced(s1)
              THEN mempool_update(s1, BlockHashes(new_chain), BlockHashes(old_chain))
              ELSE s1
        head_hash == new_chain[Len(new_chain)].hash
    IN init_block_producer(s2, Some(head_hash))

\* on_blockchain_event with init_epoch run after the Extended handling of an
\* EpochFinalized event.
on_blockchain_event_epoch_after(s, event, in_window) ==
    CASE event.type = "Extended" -> on_blockchain_extended(s, event.hash)
      [] event.type = "HistoryAdopted" -> on_blockchain_history_adopted(s, event.hash)
      [] event.type = "Finalized" ->
            update_consensus_state(on_blockchain_extended(s, event.hash),
                                   Some(event.hash), in_window)
      [] event.type = "EpochFinalized" ->
            update_consensus_state(
                init_epoch(on_blockchain_extended(s, event.hash), in_window),
                Some(event.hash), in_window)
      [] event.type = "Rebranched" ->
            on_blockchain_rebranched(s, event.old_chain, event.new_chain)
      [] event.type = "Stored" -> s

on_blockchain_event(s, event, in_window) ==
    CASE event.type = "Extended" -> on_blockchain_extended(s, event.hash)
      [] event.type = "HistoryAdopted" -> on_blockchain_history_adopted(s, event.hash)
      [] event.type = "Finalized" ->
            update_consensus_state(on_blockchain_extended(s, event.hash),
                                   Some(event.hash), in_window)
      [] event.type = "EpochFinalized" ->
            update_consensus_state(
                on_blockchain_extended(init_epoch(s, in_window), event.hash),
                Some(event.hash), in_window)
      [] event.type = "Rebranched" ->
            on_blockchain_rebranched(s, event.old_chain, event.new_chain)
      [] event.type = "Stored" -> s

(***************************************************************************)
(* Fork events and network events.                                          *)
(***************************************************************************)
\* history_store.has_equivocation_proof(locator, None).
has_equivocation_proof(locator) == <<"Equivocation", locator>> \in history

\* on_equivocation_proof without the look into the history store.
on_equivocation_proof_unchecked(s, proof) ==
    [s EXCEPT !.equivocation_proofs = insert(@, proof)]

on_equivocation_proof(s, proof) ==
    IF has_equivocation_proof(proof.locator) THEN s
    ELSE [s EXCEPT !.equivocation_proofs = insert(@, proof)]

\* ForkEvent::Detected(fork_proof).
on_fork_event(s, event) == on_equivocation_proof(s, event.proof)

\* publish_dht spawns the task that sets the validator's record.
publish_dht(s) == [s EXCEPT !.dht_tasks = Append(@, "set_public_key")]

\* The arms of poll's network loop with publish_dht on every Ok item.
on_network_event_any(s, result) ==
    IF result # "Err" THEN publish_dht(s) ELSE s

\* The arms of poll's network loop: Ok(DhtReady), Ok(_) and Err(e).
on_network_event(s, result) ==
    IF result = "DhtReady" THEN publish_dht(s) ELSE s

(***************************************************************************)
(* What the handlers do to the locks, in program order: the blockchain's    *)
(* read lock, the write lock of the consensus state, and the tasks spawned. *)
(***************************************************************************)
\* on_equivocation_proof: the read guard lives to the end of the function.
on_equivocation_proof_locks(proof) ==
    IF has_equivocation_proof(proof.locator)
    THEN <<"blockchain.read", "drop blockchain">>
    ELSE <<"blockchain.read", "consensus_state.write", "drop consensus_state",
           "drop blockchain">>

\* init_epoch: the read guard lives to the end of the function, past the
\* spawn of network.set_validators.
init_epoch_locks(s) ==
    IF ~is_synced(s) THEN <<>>
    ELSE <<"blockchain.read", "spawn", "drop blockchain">>

\* The staking check of poll: reactivate spawns the task that sends the
\* transaction, and the guard is dropped when it has returned.
staking_check_locks(s) ==
    IF ~is_synced(s) THEN <<>>
    ELSE IF /\ get_staking_state.tag = "Inactive"
            /\ ~IsSome(s.validator_state)
            /\ (IF IsSome(get_staking_state.jailed_from)
                THEN head >= block_after_jail(Unwrap(get_staking_state.jailed_from))
                ELSE TRUE)
            /\ s.automatic_reactivate
         THEN <<"blockchain.read", "spawn", "drop blockchain">>
         ELSE <<"blockchain.read", "drop blockchain">>

(***************************************************************************)
(* Producer outputs.                                                        *)
(***************************************************************************)
ProposalOutcomes == {"ProposalAccepted", "ProposalIgnored", "ProposalRejected"}
PubsubIds == {None, Some("id1")}

\* The proposal events acknowledged whether they carry an id or not.
poll_macro_Proposal_always(outcome, id) ==
    LET acknowledged == IF IsSome(id) THEN Unwrap(id) ELSE "default" IN
    CASE outcome = "ProposalAccepted" -> <<[id |-> acknowledged, acceptance |-> "Accept"]>>
      [] outcome = "ProposalIgnored" -> <<[id |-> acknowledged, acceptance |-> "Ignore"]>>
      [] outcome = "ProposalRejected" -> <<[id |-> acknowledged, acceptance |-> "Reject"]>>

\* poll_macro, the three proposal events: the validate_message calls made.
poll_macro_Proposal(outcome, id) ==
    CASE outcome = "ProposalAccepted" ->
            IF IsSome(id) THEN <<[id |-> Unwrap(id), acceptance |-> "Accept"]>> ELSE <<>>
      [] outcome = "ProposalIgnored" ->
            IF IsSome(id) THEN <<[id |-> Unwrap(id), acceptance |-> "Ignore"]>> ELSE <<>>
      [] outcome = "ProposalRejected" ->
            IF IsSome(id) THEN <<[id |-> Unwrap(id), acceptance |-> "Reject"]>> ELSE <<>>

MacroBlock(bn) == [ty |-> "Macro", bn |-> bn, body |-> Some("body")]
MicroBlock(bn) == [ty |-> "Micro", bn |-> bn, body |-> Some("body")]

\* publish_block spawns the task that publishes the block on both topics.
publish_block(s, block) ==
    [s EXCEPT !.publish_tasks = Append(@, [block |-> block, stage |-> 0])]

\* The task that returns when the publish on BlockTopic has failed.
publish_block_task_returns(task, result) ==
    IF task.stage = 0
    THEN [call |-> [topic |-> "BlockTopic", block |-> task.block],
          rest |-> IF result = "Err" THEN None ELSE Some([task EXCEPT !.stage = 1])]
    ELSE [call |-> [topic |-> "BlockHeaderTopic",
                    block |-> IF task.block.ty = "Micro"
                              THEN [task.block EXCEPT !.body = None]
                              ELSE task.block],
          rest |-> None]

\* The task with the body removed before the first publish.
publish_block_task_stripped(task, result) ==
    LET block == IF task.block.ty = "Micro"
                 THEN [task.block EXCEPT !.body = None] ELSE task.block
    IN IF task.stage = 0
       THEN [call |-> [topic |-> "BlockTopic", block |-> block],
             rest |-> Some([task EXCEPT !.stage = 1])]
       ELSE [call |-> [topic |-> "BlockHeaderTopic", block |-> block], rest |-> None]

\* One await of the task spawned by publish_block: the publish call it issues
\* and what is left of the task once the network has answered with `result`;
\* an Err is logged and the task goes on.
publish_block_task(task, result) ==
    IF task.stage = 0
    THEN [call |-> [topic |-> "BlockTopic", block |-> task.block],
          rest |-> Some([task EXCEPT !.stage = 1])]
    ELSE [call |-> [topic |-> "BlockHeaderTopic",
                    block |-> IF task.block.ty = "Micro"
                              THEN [task.block EXCEPT !.body = None]
                              ELSE task.block],
          rest |-> None]

\* poll_macro, MappedReturn::Decision after the push returned `result`
\* ("Err" stands for a push error, mapped to None by .ok()).
poll_macro_Decision(s, block, result) ==
    IF result = "Extended" \/ result = "Rebranched" THEN publish_block(s, block) ELSE s

\* The Update handler without the write transaction.
poll_macro_Update_unsaved(s, update) ==
    IF head + 1 # update.block_number
    THEN [stored |-> s, returned |-> TRUE]
    ELSE [stored |-> [s EXCEPT !.macro_state = Some(update)], returned |-> FALSE]

\* The Update handler that commits the record and keeps the old MacroState.
poll_macro_Update_unexposed(s, update) ==
    IF head + 1 # update.block_number
    THEN [stored |-> s, returned |-> TRUE]
    ELSE [stored |-> [s EXCEPT !.database = Some(update)], returned |-> FALSE]

\* The Update handler without the comparison with the expected block number.
poll_macro_Update_unchecked(s, update) ==
    [stored |-> [s EXCEPT !.database = Some(update), !.macro_state = Some(update)],
     returned |-> FALSE]

\* poll_macro, MappedReturn::Update: [stored |-> the validator afterwards,
\* returned |-> whether poll_macro returned early].
poll_macro_Update(s, update) ==
    LET expected_block_number == head + 1 IN
    IF expected_block_number # update.block_number
    THEN [stored |-> s, returned |-> TRUE]
    ELSE [stored |-> [s EXCEPT !.database = Some(update), !.macro_state = Some(update)],
          returned |-> FALSE]

\* The MicroBlock handler that publishes whatever the push result.
poll_micro_MicroBlock_always(s, block, result) == publish_block(s, block)

\* poll_micro, ProduceMicroBlockEvent::MicroBlock(block, result).
poll_micro_MicroBlock(s, block, result) ==
    IF result = "Extended" \/ result = "Rebranched" THEN publish_block(s, block) ELSE s

(***************************************************************************)
(* Auto-reactivation.                                                       *)
(***************************************************************************)
ReactivateTransaction(validity_start_height) ==
    [fee |-> 0, validity_start_height |-> validity_start_height]

\* Transaction::hash (Blake2b of the serialized transaction).
TxHash(transaction) == <<"Blake2b", transaction.fee, transaction.validity_start_height>>

\* history_store.tx_in_validity_window for a transaction hash.
tx_in_validity_window(tx_hash) == tx_hash \in history

\* The answer init_epoch gets for the recorded transaction, if there is one.
InWindow(s) ==
    IsSome(s.validator_state)
    /\ tx_in_validity_window(Unwrap(s.validator_state).inactive_tx_hash)

\* reactivate that spawns the send but records no InactivityState.
reactivate_unrecorded(s) ==
    LET validity_start_height == head
        reactivate_transaction == ReactivateTransaction(validity_start_height)
    IN [s EXCEPT !.reactivate_tasks = Append(@, reactivate_transaction)]

\* reactivate that takes the validity start from the block after the head.
reactivate_next_height(s) ==
    LET validity_start_height == head + 1
        reactivate_transaction == ReactivateTransaction(validity_start_height)
    IN [s EXCEPT !.reactivate_tasks = Append(@, reactivate_transaction),
                 !.validator_state =
                     Some([inactive_tx_hash |-> TxHash(reactivate_transaction),
                           inactive_tx_validity_window_start |-> validity_start_height])]

reactivate(s) ==
    LET validity_start_height == head
        reactivate_transaction == ReactivateTransaction(validity_start_height)
    IN [s EXCEPT !.reactivate_tasks = Append(@, reactivate_transaction),
                 !.validator_state =
                     Some([inactive_tx_hash |-> TxHash(reactivate_transaction),
                           inactive_tx_validity_window_start |-> validity_start_height])]

\* The staking check that reactivates whatever automatic_reactivate says.
staking_check_unasked(s) ==
    IF ~is_synced(s) THEN s
    ELSE LET state == get_staking_state IN
      CASE state.tag = "Active" ->
             IF IsSome(s.validator_state) THEN [s EXCEPT !.validator_state = None] ELSE s
        [] state.tag = "Inactive" ->
             IF /\ ~IsSome(s.validator_state)
                /\ (IF IsSome(state.jailed_from)
                    THEN head >= block_after_jail(Unwrap(state.jailed_from))
                    ELSE TRUE)
             THEN reactivate(s)
             ELSE s
        [] OTHER -> s

\* The staking check that leaves the InactivityState when it sees Active.
staking_check_keeps(s) ==
    IF ~is_synced(s) THEN s
    ELSE LET state == get_staking_state IN
      CASE state.tag = "Active" -> s
        [] state.tag = "Inactive" ->
             IF /\ ~IsSome(s.validator_state)
                /\ (IF IsSome(state.jailed_from)
                    THEN head >= block_after_jail(Unwrap(state.jailed_from))
                    ELSE TRUE)
                /\ s.automatic_reactivate
             THEN reactivate(s)
             ELSE s
        [] OTHER -> s

\* The staking check of Validator::poll.
staking_check(s) ==
    IF ~is_synced(s) THEN s
    ELSE LET state == get_staking_state IN
      CASE state.tag = "Active" ->
             IF IsSome(s.validator_state) THEN [s EXCEPT !.validator_state = None] ELSE s
        [] state.tag = "Inactive" ->
             IF /\ ~IsSome(s.validator_state)
                /\ (IF IsSome(state.jailed_from)
                    THEN head >= block_after_jail(Unwrap(state.jailed_from))
                    ELSE TRUE)
                /\ s.automatic_reactivate
             THEN reactivate(s)
             ELSE s
        [] OTHER -> s

(***************************************************************************)
(* The blockchain: pushes, rebranches and the events they notify.           *)
(***************************************************************************)
EventTypeOf(n) ==
    IF BlockTypeOf(n) = "Micro" THEN "Extended"
    ELSE IF IsElection(n) THEN "EpochFinalized" ELSE "Finalized"

Notify(type, hash) ==
    /\ Len(blockchain_event_rx) < MaxQueue
    /\ blockchain_event_rx' = Append(blockchain_event_rx, [type |-> type, hash |-> hash])

\* Rebranched carries the blocks of the chain left and of the chain adopted.
NotifyRebranched(old_chain, new_chain) ==
    /\ Len(blockchain_event_rx) < MaxQueue
    /\ blockchain_event_rx' =
          Append(blockchain_event_rx,
                 [type |-> "Rebranched", hash |-> new_chain[Len(new_chain)].hash,
                  old_chain |-> old_chain, new_chain |-> new_chain])

\* Block n becomes the head: an election block brings a new validator set, a
\* macro block may change can_enforce_validity_window.
Extend(n) ==
    /\ n <= MaxHead
    /\ head' = n
    /\ fork' = 0
    /\ band' \in (IF IsElection(n) THEN Bands ELSE {band})
    /\ can_enforce' \in (IF BlockTypeOf(n) = "Macro" THEN BOOLEAN ELSE {can_enforce})
    /\ Notify(EventTypeOf(n), <<n, 0>>)

\* What the history store holds of the equivocation proofs in a block body.
HistoryOf(proofs) == {<<"Equivocation", proof.locator>> : proof \in proofs}

\* A block may include the proofs the history does not have yet.
Includable(proofs) == \A proof \in proofs : ~has_equivocation_proof(proof.locator)

\* The block `hash` with `proofs` in its body enters the main chain in the
\* place of a block with the proofs `replaced`.
StoreBlock(hash, proofs, replaced) ==
    /\ blocks' = [blocks EXCEPT ![hash] = proofs]
    /\ history' = (history \ HistoryOf(replaced)) \cup HistoryOf(proofs)

\* The micro block at the head is replaced by a sibling with `proofs`.
RebranchTo(proofs) ==
    /\ BlockTypeOf(head) = "Micro"
    /\ Includable(proofs \ blocks[<<head, fork>>])
    /\ fork' = 1 - fork
    /\ NotifyRebranched(<<get_block(<<head, fork>>)>>,
                        <<[hash |-> <<head, 1 - fork>>, proofs |-> proofs]>>)
    /\ StoreBlock(<<head, 1 - fork>>, proofs, blocks[<<head, fork>>])
    /\ UNCHANGED <<head, band, can_enforce>>

\* The same, with a sibling the chain store has already.
Rebranch == RebranchTo(blocks[<<head, 1 - fork>>])

\* Blockchain::push of a locally produced block for height n with `proofs` in
\* its body, with `result`.
PushResults == {"Known", "Extended", "Rebranched", "Forked", "Ignored"}

Push(n, proofs, result) ==
    CASE result = "Extended" ->
            /\ n = head + 1 /\ Includable(proofs)
            /\ Extend(n) /\ StoreBlock(<<n, 0>>, proofs, {})
            /\ UNCHANGED staking
      [] result = "Rebranched" -> n = head /\ RebranchTo(proofs) /\ UNCHANGED staking
      [] OTHER -> UNCHANGED chain /\ UNCHANGED <<blocks, history>>

orchestrator == <<pc, this, executors, votes, published, failed>>

\* A block of another producer is pushed.
BlockchainPush ==
    /\ Extend(head + 1)
    /\ UNCHANGED <<staking, is_established, consensus_event_rx>>
    /\ UNCHANGED orchestrator
    /\ UNCHANGED conversion
    /\ UNCHANGED <<history, aggregation>>
    /\ UNCHANGED <<fork_event_rx, network_event_rx, blocks, validated>>

\* The same, with a block that changes this validator's staking record.
BlockchainPushStaking ==
    /\ Extend(head + 1)
    /\ staking' \in StakingViews \ {staking}
    /\ UNCHANGED <<is_established, consensus_event_rx>>
    /\ UNCHANGED orchestrator
    /\ UNCHANGED conversion
    /\ UNCHANGED <<history, aggregation>>
    /\ UNCHANGED <<fork_event_rx, network_event_rx, blocks, validated>>

\* A block that includes the reactivation transaction this validator has sent:
\* the transaction enters the history and the validator is active again.
BlockchainPushReactivate ==
    /\ IsSome(this.validator_state)
    /\ this.reactivate_tasks = <<>>
    /\ staking.registered /\ staking.inactive
    /\ Extend(head + 1)
    /\ staking' = [staking EXCEPT !.inactive = FALSE, !.jailed_from = None]
    /\ history' = history \cup {Unwrap(this.validator_state).inactive_tx_hash}
    /\ UNCHANGED <<is_established, consensus_event_rx>>
    /\ UNCHANGED orchestrator
    /\ UNCHANGED conversion
    /\ UNCHANGED aggregation
    /\ UNCHANGED <<fork_event_rx, network_event_rx, blocks, validated>>

BlockchainRebranch ==
    /\ Rebranch
    /\ UNCHANGED <<staking, is_established, consensus_event_rx>>
    /\ UNCHANGED orchestrator
    /\ UNCHANGED conversion
    /\ UNCHANGED <<aggregation, fork_event_rx, network_event_rx, validated>>

\* A micro block of another producer with equivocation proofs in its body.
BlockchainPushProofs ==
    /\ BlockTypeOf(head + 1) = "Micro"
    /\ \E proofs \in SUBSET Proofs \ {{}} :
          /\ Includable(proofs)
          /\ Extend(head + 1)
          /\ StoreBlock(<<head + 1, 0>>, proofs, {})
    /\ UNCHANGED <<staking, is_established, consensus_event_rx>>
    /\ UNCHANGED orchestrator
    /\ UNCHANGED conversion
    /\ UNCHANGED <<aggregation, fork_event_rx, network_event_rx, validated>>

\* The micro block at the head is replaced by a new sibling with
\* equivocation proofs in its body.
BlockchainRebranchProofs ==
    /\ \E proofs \in SUBSET Proofs \ {{}} : RebranchTo(proofs)
    /\ UNCHANGED <<staking, is_established, consensus_event_rx>>
    /\ UNCHANGED orchestrator
    /\ UNCHANGED conversion
    /\ UNCHANGED <<aggregation, fork_event_rx, network_event_rx, validated>>

\* The proofs the blocks of a list carry.
ProofsOf(chain_blocks) == UNION {chain_blocks[i].proofs : i \in DOMAIN chain_blocks}

\* The bodies of at most `len` blocks of one chain: no proof is in two of them.
Bodies(len) ==
    {bodies \in UNION {[1..n -> SUBSET Proofs] : n \in 0..len} :
        \A i, j \in DOMAIN bodies : i # j => bodies[i] \cap bodies[j] = {}}

ChainBodies == Bodies(MaxChain - 1)

\* The blocks with `bodies` that lie below the head on `branch`.
Below(bodies, branch) ==
    [i \in DOMAIN bodies |->
        [hash |-> <<head - Len(bodies) + i - 1, branch>>, proofs |-> bodies[i]]]

\* A rebranch that reaches below the head: the event lists the blocks left and
\* the blocks adopted, the head block last.
BlockchainRebranchChains ==
    /\ BlockTypeOf(head) = "Micro"
    /\ blockchain_event_rx = <<>>
    /\ \E old_bodies \in ChainBodies, new_bodies \in ChainBodies, proofs \in SUBSET Proofs :
          LET old_chain == Below(old_bodies, fork) \o <<get_block(<<head, fork>>)>>
              new_chain == Below(new_bodies, 1 - fork)
                             \o <<[hash |-> <<head, 1 - fork>>, proofs |-> proofs]>>
          IN /\ Len(old_bodies) + Len(new_bodies) > 0
             /\ Len(old_bodies) < head /\ Len(new_bodies) < head
             /\ ProofsOf(Below(old_bodies, fork)) \cap blocks[<<head, fork>>] = {}
             /\ ProofsOf(Below(new_bodies, 1 - fork)) \cap proofs = {}
             /\ HistoryOf(ProofsOf(old_chain)) \subseteq history
             /\ Includable(ProofsOf(new_chain) \ ProofsOf(old_chain))
             /\ fork' = 1 - fork
             /\ NotifyRebranched(old_chain, new_chain)
             /\ blocks' = [blocks EXCEPT ![<<head, 1 - fork>>] = proofs]
             /\ history' = (history \ HistoryOf(ProofsOf(old_chain)))
                              \cup HistoryOf(ProofsOf(new_chain))
    /\ UNCHANGED <<head, band, can_enforce>>
    /\ UNCHANGED <<staking, is_established, consensus_event_rx>>
    /\ UNCHANGED orchestrator
    /\ UNCHANGED conversion
    /\ UNCHANGED <<aggregation, fork_event_rx, network_event_rx, validated>>

BlockchainHistoryAdopted ==
    /\ Notify("HistoryAdopted", HeadHash)
    /\ UNCHANGED <<head, fork, band, can_enforce, staking>>
    /\ UNCHANGED <<is_established, consensus_event_rx>>
    /\ UNCHANGED orchestrator
    /\ UNCHANGED conversion
    /\ UNCHANGED <<history, aggregation>>
    /\ UNCHANGED <<fork_event_rx, network_event_rx, blocks, validated>>

BlockchainStored ==
    /\ BlockTypeOf(head) = "Micro"
    /\ Notify("Stored", <<head, 1 - fork>>)
    /\ UNCHANGED <<head, fork, band, can_enforce, staking>>
    /\ UNCHANGED <<is_established, consensus_event_rx>>
    /\ UNCHANGED orchestrator
    /\ UNCHANGED conversion
    /\ UNCHANGED <<history, aggregation>>
    /\ UNCHANGED <<fork_event_rx, network_event_rx, blocks, validated>>

\* The consensus event stream has ended: after its last item it yields None.
ConsensusClosed ==
    consensus_event_rx # <<>> /\ consensus_event_rx[Len(consensus_event_rx)] = "End"

\* Consensus is established or lost and says so on its event stream.
ConsensusEvent ==
    /\ ~ConsensusClosed
    /\ Len(consensus_event_rx) < MaxQueue
    /\ is_established' \in BOOLEAN
    /\ consensus_event_rx' = Append(consensus_event_rx, "Ok")
    /\ UNCHANGED chain
    /\ UNCHANGED orchestrator
    /\ UNCHANGED conversion
    /\ UNCHANGED <<history, aggregation>>
    /\ UNCHANGED <<fork_event_rx, network_event_rx, blocks, validated>>

\* The broadcast stream reports an error (the receiver lagged).
ConsensusStreamError ==
    /\ ~ConsensusClosed
    /\ Len(consensus_event_rx) < MaxQueue
    /\ consensus_event_rx' = Append(consensus_event_rx, "Err")
    /\ UNCHANGED is_established
    /\ UNCHANGED chain
    /\ UNCHANGED orchestrator
    /\ UNCHANGED conversion
    /\ UNCHANGED <<history, aggregation>>
    /\ UNCHANGED <<fork_event_rx, network_event_rx, blocks, validated>>

\* The sender side of the consensus event stream is dropped.
ConsensusStreamClosed ==
    /\ ~ConsensusClosed
    /\ Len(consensus_event_rx) < MaxQueue
    /\ consensus_event_rx' = Append(consensus_event_rx, "End")
    /\ UNCHANGED is_established
    /\ UNCHANGED chain
    /\ UNCHANGED orchestrator
    /\ UNCHANGED conversion
    /\ UNCHANGED <<history, aggregation>>
    /\ UNCHANGED <<fork_event_rx, network_event_rx, blocks, validated>>

\* The blockchain reports a fork it has detected, with the proof of it.
ForkDetected ==
    /\ Len(fork_event_rx) < MaxQueue
    /\ \E proof \in Proofs :
          fork_event_rx' = Append(fork_event_rx, [ok |-> TRUE, proof |-> proof])
    /\ UNCHANGED <<is_established, consensus_event_rx>>
    /\ UNCHANGED chain
    /\ UNCHANGED orchestrator
    /\ UNCHANGED conversion
    /\ UNCHANGED <<history, aggregation, network_event_rx, blocks, validated>>

\* The fork event stream reports an error (the receiver lagged).
ForkStreamError ==
    /\ Len(fork_event_rx) < MaxQueue
    /\ fork_event_rx' = Append(fork_event_rx, [ok |-> FALSE])
    /\ UNCHANGED <<is_established, consensus_event_rx>>
    /\ UNCHANGED chain
    /\ UNCHANGED orchestrator
    /\ UNCHANGED conversion
    /\ UNCHANGED <<history, aggregation, network_event_rx, blocks, validated>>

\* The network reports DhtReady, or its stream yields another item: any
\* other event or an error.
NetworkEvents == {"DhtReady", "Other"}

NetworkEvent ==
    /\ Len(network_event_rx) < MaxQueue
    /\ \E event \in NetworkEvents : network_event_rx' = Append(network_event_rx, event)
    /\ UNCHANGED <<is_established, consensus_event_rx>>
    /\ UNCHANGED chain
    /\ UNCHANGED orchestrator
    /\ UNCHANGED conversion
    /\ UNCHANGED <<history, aggregation, fork_event_rx, blocks, validated>>

\* The network event stream reports an error (the receiver lagged).
NetworkStreamError ==
    /\ Len(network_event_rx) < MaxQueue
    /\ network_event_rx' = Append(network_event_rx, "Err")
    /\ UNCHANGED <<is_established, consensus_event_rx>>
    /\ UNCHANGED chain
    /\ UNCHANGED orchestrator
    /\ UNCHANGED conversion
    /\ UNCHANGED <<history, aggregation, fork_event_rx, blocks, validated>>

(***************************************************************************)
(* Validator::poll, one ready item per step.                                *)
(***************************************************************************)
env == <<head, fork, band, can_enforce, staking, is_established>>

TasksBounded(s) ==
    /\ Len(s.mempool_tasks) <= MaxTasks
    /\ Len(s.publish_tasks) <= MaxTasks
    /\ Len(s.reactivate_tasks) <= MaxTasks
    /\ Len(s.dht_tasks) <= MaxTasks

\* Where the pass goes from a stream it has found pending.  The fork and the
\* network stream are polled at once when they have nothing ready.
AfterStaking == IF network_event_rx # <<>> THEN "network" ELSE "pending"

AfterMacro(s) == IF IsSome(s.micro_producer) THEN "micro" ELSE "staking"

AfterForks(s) ==
    IF is_synced(s) /\ is_elected(s)
    THEN IF IsSome(s.macro_producer) THEN "macro" ELSE AfterMacro(s)
    ELSE "staking"

PollConsensusOk ==
    /\ pc = "consensus"
    /\ consensus_event_rx # <<>> /\ Head(consensus_event_rx) = "Ok"
    /\ consensus_event_rx' = Tail(consensus_event_rx)
    /\ this' = update_consensus_state(this, None, InWindow(this))
    /\ TasksBounded(this')
    /\ UNCHANGED <<env, blockchain_event_rx, pc, executors, votes, published, failed, conversion>>
    /\ UNCHANGED <<history, aggregation>>
    /\ UNCHANGED <<fork_event_rx, network_event_rx, blocks, validated>>

\* The same while the executor has start/stop_executors tasks of earlier
\* events yet to run.
PollConsensusBacklog ==
    /\ pc = "consensus"
    /\ consensus_event_rx # <<>> /\ Head(consensus_event_rx) = "Ok"
    /\ consensus_event_rx' = Tail(consensus_event_rx)
    /\ this' = update_consensus_state(this, None, InWindow(this))
    /\ Len(this'.mempool_tasks) <= MaxBacklog
    /\ UNCHANGED <<env, blockchain_event_rx, pc, executors, votes, published, failed, conversion>>
    /\ UNCHANGED <<history, aggregation>>
    /\ UNCHANGED <<fork_event_rx, network_event_rx, blocks, validated>>

PollConsensusErr ==
    /\ pc = "consensus"
    /\ consensus_event_rx # <<>> /\ Head(consensus_event_rx) = "Err"
    /\ consensus_event_rx' = Tail(consensus_event_rx)
    /\ pc' = "ready"
    /\ UNCHANGED <<env, blockchain_event_rx, this, executors, votes, published, failed, conversion>>
    /\ UNCHANGED <<history, aggregation>>
    /\ UNCHANGED <<fork_event_rx, network_event_rx, blocks, validated>>

\* The stream has ended: poll_next yields None and the loop is left.
PollConsensusEnded ==
    /\ pc = "consensus"
    /\ consensus_event_rx # <<>> /\ Head(consensus_event_rx) = "End"
    /\ pc' = "blockchain"
    /\ UNCHANGED <<env, consensus_event_rx, blockchain_event_rx, this, executors, votes,
                   published, failed, conversion>>
    /\ UNCHANGED <<history, aggregation>>
    /\ UNCHANGED <<fork_event_rx, network_event_rx, blocks, validated>>

PollConsensusPending ==
    /\ pc = "consensus"
    /\ consensus_event_rx = <<>>
    /\ pc' = "blockchain"
    /\ UNCHANGED <<env, consensus_event_rx, blockchain_event_rx, this, executors, votes,
                   published, failed, conversion>>
    /\ UNCHANGED <<history, aggregation>>
    /\ UNCHANGED <<fork_event_rx, network_event_rx, blocks, validated>>

PollBlockchainEvent ==
    /\ pc = "blockchain"
    /\ blockchain_event_rx # <<>>
    /\ blockchain_event_rx' = Tail(blockchain_event_rx)
    /\ this' = mempool_executes(
                  on_blockchain_event(this, Head(blockchain_event_rx), InWindow(this)))
    /\ TasksBounded(this')
    /\ UNCHANGED <<env, consensus_event_rx, pc, executors, votes, published, failed, conversion>>
    /\ UNCHANGED <<history, aggregation>>
    /\ UNCHANGED <<fork_event_rx, network_event_rx, blocks, validated>>

\* The pass going on to the producers before the fork events.
AfterBlockchain_producers_first(s) ==
    IF is_synced(s) /\ is_elected(s) /\ (IsSome(s.macro_producer) \/ IsSome(s.micro_producer))
    THEN AfterForks(s)
    ELSE IF fork_event_rx # <<>> THEN "fork" ELSE AfterForks(s)

\* The fork stream is polled at once when it has nothing ready.
AfterBlockchain(s) == IF fork_event_rx # <<>> THEN "fork" ELSE AfterForks(s)

PollBlockchainPending ==
    /\ pc = "blockchain"
    /\ blockchain_event_rx = <<>>
    /\ pc' = AfterBlockchain(this)
    /\ UNCHANGED <<env, consensus_event_rx, blockchain_event_rx, this, executors, votes,
                   published, failed, conversion>>
    /\ UNCHANGED <<history, aggregation>>
    /\ UNCHANGED <<fork_event_rx, network_event_rx, blocks, validated>>

\* A fork event: the proof is inserted if consensus is established.
PollForkEvent ==
    /\ pc = "fork"
    /\ fork_event_rx # <<>> /\ Head(fork_event_rx).ok
    /\ fork_event_rx' = Tail(fork_event_rx)
    /\ LET consensus_established == is_established IN
          this' = IF consensus_established THEN on_fork_event(this, Head(fork_event_rx))
                  ELSE this
    /\ UNCHANGED <<env, consensus_event_rx, blockchain_event_rx, pc, executors, votes,
                   published, failed, conversion>>
    /\ UNCHANGED <<history, aggregation, network_event_rx, blocks, validated>>

\* An error item of the fork stream does not match the loop's pattern.
PollForkErr ==
    /\ pc = "fork"
    /\ fork_event_rx # <<>> /\ ~Head(fork_event_rx).ok
    /\ fork_event_rx' = Tail(fork_event_rx)
    /\ pc' = AfterForks(this)
    /\ UNCHANGED <<env, consensus_event_rx, blockchain_event_rx, this, executors, votes,
                   published, failed, conversion>>
    /\ UNCHANGED <<history, aggregation, network_event_rx, blocks, validated>>

PollForkPending ==
    /\ pc = "fork"
    /\ fork_event_rx = <<>>
    /\ pc' = AfterForks(this)
    /\ UNCHANGED <<env, consensus_event_rx, blockchain_event_rx, this, executors, votes,
                   published, failed, conversion>>
    /\ UNCHANGED <<history, aggregation>>
    /\ UNCHANGED <<fork_event_rx, network_event_rx, blocks, validated>>

\* Inside the producer's poll: it has judged a proposal it received.
MacroProducerProposal ==
    /\ pc = "macro"
    /\ LET producer == Unwrap(this.macro_producer) IN
          /\ ~producer.decided
          /\ Len(producer.proposals) < MaxProposals
          /\ \E outcome \in ProposalOutcomes, id \in PubsubIds :
                this' = [this EXCEPT !.macro_producer =
                           Some([producer EXCEPT !.proposals =
                                    Append(@, [outcome |-> outcome, id |-> id])])]
    /\ UNCHANGED <<env, consensus_event_rx, blockchain_event_rx, pc, executors, votes,
                   published, failed, conversion>>
    /\ UNCHANGED <<history, aggregation>>
    /\ UNCHANGED <<fork_event_rx, network_event_rx, blocks, validated>>

\* The macro producer yields ProposalAccepted, ProposalIgnored or
\* ProposalRejected.
PollMacroProposal ==
    /\ pc = "macro"
    /\ LET producer == Unwrap(this.macro_producer) IN
          /\ producer.proposals # <<>>
          /\ LET event == Head(producer.proposals) IN
                validated' = poll_macro_Proposal(event.outcome, event.id)
          /\ this' = [this EXCEPT !.macro_producer =
                         Some([producer EXCEPT !.proposals = Tail(@)])]
    /\ UNCHANGED <<env, consensus_event_rx, blockchain_event_rx, pc, executors, votes,
                   published, failed, conversion>>
    /\ UNCHANGED <<history, aggregation>>
    /\ UNCHANGED <<fork_event_rx, network_event_rx, blocks>>

\* The macro producer yields an Update: its checkpoint has changed.
PollMacroUpdate ==
    /\ pc = "macro"
    /\ Unwrap(this.macro_producer).dirty
    /\ LET producer == Unwrap(this.macro_producer)
           update == [block_number |-> producer.bn, step |-> producer.step]
           yielded == [this EXCEPT !.macro_producer = Some([producer EXCEPT !.dirty = FALSE])]
           handled == poll_macro_Update(yielded, update)
       IN /\ this' = handled.stored
          /\ pc' = IF handled.returned THEN AfterMacro(this) ELSE "macro"
    /\ UNCHANGED <<env, consensus_event_rx, blockchain_event_rx, executors, votes, published, failed, conversion>>
    /\ UNCHANGED <<history, aggregation>>
    /\ UNCHANGED <<fork_event_rx, network_event_rx, blocks, validated>>

\* Inside the producer's poll: it signs and sends a vote of its current
\* checkpoint.  A changed checkpoint is yielded as an Update first.
MacroProducerVote ==
    /\ pc = "macro"
    /\ LET producer == Unwrap(this.macro_producer) IN
          /\ ProduceMacroBlock_votes(producer)
          /\ votes' = votes \cup {[block_number |-> producer.bn, step |-> producer.step]}
    /\ UNCHANGED <<env, consensus_event_rx, blockchain_event_rx, pc, this, executors,
                   published, failed, conversion>>
    /\ UNCHANGED <<history, aggregation>>
    /\ UNCHANGED <<fork_event_rx, network_event_rx, blocks, validated>>

\* Inside the producer's poll: Tendermint moves to its next round/step.
MacroProducerStep ==
    /\ pc = "macro"
    /\ LET producer == Unwrap(this.macro_producer) IN
          /\ ~producer.dirty /\ ~producer.decided
          /\ producer.step < MaxStep
          /\ this' = [this EXCEPT !.macro_producer =
                        Some([producer EXCEPT !.step = @ + 1, !.dirty = TRUE])]
    /\ UNCHANGED <<env, consensus_event_rx, blockchain_event_rx, pc, executors, votes,
                   published, failed, conversion>>
    /\ UNCHANGED <<history, aggregation>>
    /\ UNCHANGED <<fork_event_rx, network_event_rx, blocks, validated>>

\* The macro producer yields its Decision; the orchestrator pushes the block.
PollMacroDecision ==
    /\ pc = "macro"
    /\ LET producer == Unwrap(this.macro_producer) IN
          /\ ProduceMacroBlock_decides(producer)
          /\ \E result \in PushResults \cup {"Err"} :
                /\ Push(producer.bn, {}, result)
                /\ this' = poll_macro_Decision(
                              [this EXCEPT !.macro_producer =
                                  Some([producer EXCEPT !.decided = TRUE])],
                              MacroBlock(producer.bn), result)
    /\ TasksBounded(this')
    /\ UNCHANGED <<is_established, consensus_event_rx, pc, executors, votes, published, failed, conversion>>
    /\ UNCHANGED <<aggregation, fork_event_rx, network_event_rx, validated>>

PollMacroPending ==
    /\ pc = "macro"
    /\ Unwrap(this.macro_producer).proposals = <<>>
    /\ pc' = AfterMacro(this)
    /\ UNCHANGED <<env, consensus_event_rx, blockchain_event_rx, this, executors, votes,
                   published, failed, conversion>>
    /\ UNCHANGED <<history, aggregation>>
    /\ UNCHANGED <<fork_event_rx, network_event_rx, blocks, validated>>

\* The micro producer has produced and pushed its block and yields it with
\* the push result.
PollMicroBlock ==
    /\ pc = "micro"
    /\ LET producer == Unwrap(this.micro_producer) IN
          /\ ~producer.done
          /\ \E result \in PushResults :
                /\ Push(producer.bn, Range(producer.equivocation_proofs), result)
                /\ this' = poll_micro_MicroBlock(
                              [this EXCEPT !.micro_producer =
                                  Some([producer EXCEPT !.done = TRUE])],
                              MicroBlock(producer.bn), result)
    /\ TasksBounded(this')
    /\ UNCHANGED <<is_established, consensus_event_rx, pc, executors, votes, published, failed, conversion>>
    /\ UNCHANGED <<aggregation, fork_event_rx, network_event_rx, validated>>

PollMicroPending ==
    /\ pc = "micro"
    /\ pc' = "staking"
    /\ UNCHANGED <<env, consensus_event_rx, blockchain_event_rx, this, executors, votes,
                   published, failed, conversion>>
    /\ UNCHANGED <<history, aggregation>>
    /\ UNCHANGED <<fork_event_rx, network_event_rx, blocks, validated>>

PollStakingCheck ==
    /\ pc = "staking"
    /\ this' = staking_check(this)
    /\ TasksBounded(this')
    /\ pc' = AfterStaking
    /\ UNCHANGED <<env, consensus_event_rx, blockchain_event_rx, executors, votes, published, failed, conversion>>
    /\ UNCHANGED <<history, aggregation>>
    /\ UNCHANGED <<fork_event_rx, network_event_rx, blocks, validated>>

\* A network event: DhtReady has the validator publish its record.
PollNetworkEvent ==
    /\ pc = "network"
    /\ network_event_rx # <<>>
    /\ network_event_rx' = Tail(network_event_rx)
    /\ this' = on_network_event(this, Head(network_event_rx))
    /\ TasksBounded(this')
    /\ UNCHANGED <<env, consensus_event_rx, blockchain_event_rx, pc, executors, votes,
                   published, failed, conversion>>
    /\ UNCHANGED <<history, aggregation, fork_event_rx, blocks, validated>>

\* The same while set_public_key tasks of earlier events wait on the executor.
PollNetworkBacklog ==
    /\ pc = "network"
    /\ network_event_rx # <<>>
    /\ network_event_rx' = Tail(network_event_rx)
    /\ this' = on_network_event(this, Head(network_event_rx))
    /\ Len(this'.dht_tasks) <= MaxBacklog
    /\ UNCHANGED <<env, consensus_event_rx, blockchain_event_rx, pc, executors, votes,
                   published, failed, conversion>>
    /\ UNCHANGED <<history, aggregation, fork_event_rx, blocks, validated>>

PollNetworkPending ==
    /\ pc = "network"
    /\ network_event_rx = <<>>
    /\ pc' = "pending"
    /\ UNCHANGED <<env, consensus_event_rx, blockchain_event_rx, this, executors, votes,
                   published, failed, conversion>>
    /\ UNCHANGED <<history, aggregation>>
    /\ UNCHANGED <<fork_event_rx, network_event_rx, blocks, validated>>

\* poll returned Pending; the executor polls the future again.
Wake ==
    /\ pc = "pending"
    /\ pc' = "consensus"
    /\ UNCHANGED <<env, consensus_event_rx, blockchain_event_rx, this, executors, votes,
                   published, failed, conversion>>
    /\ UNCHANGED <<history, aggregation>>
    /\ UNCHANGED <<fork_event_rx, network_event_rx, blocks, validated>>

(***************************************************************************)
(* The detached tasks.                                                      *)
(***************************************************************************)
RemoveAt(seq, i) == SubSeq(seq, 1, i - 1) \o SubSeq(seq, i + 1, Len(seq))

MempoolTask ==
    /\ \E i \in 1..Len(this.mempool_tasks) :
          /\ executors' = (this.mempool_tasks[i] = "start")
          /\ this' = [this EXCEPT !.mempool_tasks = RemoveAt(@, i)]
    /\ UNCHANGED <<env, consensus_event_rx, blockchain_event_rx, pc, votes, published, failed, conversion>>
    /\ UNCHANGED <<history, aggregation>>
    /\ UNCHANGED <<fork_event_rx, network_event_rx, blocks, validated>>

\* A publish task runs up to its next await, where the network accepts the
\* publish call.
PublishTask ==
    /\ \E i \in 1..Len(this.publish_tasks) :
          LET step == publish_block_task(this.publish_tasks[i], "Ok") IN
          /\ published' = published \cup {step.call}
          /\ this' = [this EXCEPT !.publish_tasks =
                        IF IsSome(step.rest) THEN [@ EXCEPT ![i] = Unwrap(step.rest)]
                        ELSE RemoveAt(@, i)]
    /\ UNCHANGED <<env, consensus_event_rx, blockchain_event_rx, pc, executors, votes>>
    /\ UNCHANGED <<failed, conversion, history, aggregation>>
    /\ UNCHANGED <<fork_event_rx, network_event_rx, blocks, validated>>

\* The same with a publish call that the network answers with an error.
PublishTaskErr ==
    /\ \E i \in 1..Len(this.publish_tasks) :
          LET step == publish_block_task(this.publish_tasks[i], "Err") IN
          /\ published' = published \cup {step.call}
          /\ failed' = failed \cup {step.call}
          /\ this' = [this EXCEPT !.publish_tasks =
                        IF IsSome(step.rest) THEN [@ EXCEPT ![i] = Unwrap(step.rest)]
                        ELSE RemoveAt(@, i)]
    /\ UNCHANGED <<env, consensus_event_rx, blockchain_event_rx, pc, executors, votes>>
    /\ UNCHANGED <<conversion, history, aggregation>>
    /\ UNCHANGED <<fork_event_rx, network_event_rx, blocks, validated>>

\* The task spawned by publish_dht sets the record.
DhtTask ==
    /\ this.dht_tasks # <<>>
    /\ this' = [this EXCEPT !.dht_tasks = Tail(@)]
    /\ UNCHANGED <<env, consensus_event_rx, blockchain_event_rx, pc, executors, votes,
                   published, failed, conversion>>
    /\ UNCHANGED <<history, aggregation>>
    /\ UNCHANGED <<fork_event_rx, network_event_rx, blocks, validated>>

ReactivateTask ==
    /\ this.reactivate_tasks # <<>>
    /\ this' = [this EXCEPT !.reactivate_tasks = Tail(@)]
    /\ UNCHANGED <<env, consensus_event_rx, blockchain_event_rx, pc, executors, votes,
                   published, failed, conversion>>
    /\ UNCHANGED <<history, aggregation>>
    /\ UNCHANGED <<fork_event_rx, network_event_rx, blocks, validated>>

\* The owner of a ValidatorProxy stores into the shared automatic_reactivate.
SetAutomaticReactivate ==
    /\ \E automatic_reactivate \in BOOLEAN \ {this.automatic_reactivate} :
          this' = [this EXCEPT !.automatic_reactivate = automatic_reactivate]
    /\ UNCHANGED <<env, consensus_event_rx, blockchain_event_rx, pc, executors, votes,
                   published, failed, conversion>>
    /\ UNCHANGED <<history, aggregation>>
    /\ UNCHANGED <<fork_event_rx, network_event_rx, blocks, validated>>

(***************************************************************************)
(* TendermintContribution (aggregation/tendermint/contribution.rs): a map   *)
(* from the proposal hash voted for (None: a vote for no proposal) to the   *)
(* MultiSignature of that vote.  An aggregate signature is the bag of the   *)
(* individual signatures added into it, an individual signature the pair of *)
(* the signer and the vote signed.                                          *)
(***************************************************************************)
Slots == 0..MaxSlot
ProposalHashes == {None, Some("h1")}
\* BTreeMap iterates its keys in order, None first.
KeyOrder == <<None, Some("h1")>>
Signatures == Slots \X ProposalHashes

BitSet_new == {}
BitAnd(x, y) == x \cap y

sign_hash(secret_key, proposal_hash) == <<secret_key, proposal_hash>>

AggregateSignature_from_signatures(signatures) ==
    [sig \in Signatures |-> Cardinality({i \in DOMAIN signatures : signatures[i] = sig})]

AggregateSignature_merge(x, y) == [sig \in Signatures |-> x[sig] + y[sig]]

MultiSignature_new(signature, signers) == [signature |-> signature, signers |-> signers]

\* MultiSignature::combine refuses two signatures with a common signer.
MultiSignature_combine(x, y) ==
    IF BitAnd(x.signers, y.signers) # {}
    THEN [ok |-> FALSE, value |-> x]
    ELSE [ok |-> TRUE,
          value |-> MultiSignature_new(AggregateSignature_merge(x.signature, y.signature),
                                       x.signers \cup y.signers)]

\* The entries of a contribution in iteration order.
Entries(contribution) == SelectSeq(KeyOrder, LAMBDA hash : hash \in DOMAIN contribution)

\* The validator signs with its own secret key: the key is named by its id.
from_vote(proposal_hash, validator_id) ==
    LET signature == AggregateSignature_from_signatures(
                         <<sign_hash(validator_id, proposal_hash)>>)
        signers == BitSet_new \cup {validator_id}
        multi_signature == MultiSignature_new(signature, signers)
    IN (proposal_hash :> multi_signature)

RECURSIVE contributors_fold(_, _, _)
contributors_fold(contribution, hashes, aggregated_set) ==
    IF hashes = <<>> THEN aggregated_set
    ELSE contributors_fold(contribution, Tail(hashes),
                           BitAnd(aggregated_set, contribution[Head(hashes)].signers))

contributors(contribution) ==
    contributors_fold(contribution, Entries(contribution), BitSet_new)

\* The for_each of combine over the entries of other_contribution still to
\* be visited; "Panic" is the expect on a failed MultiSignature::combine,
\* with the entries merged before it already in place.
RECURSIVE combine_entries(_, _, _)
combine_entries(self, other_contribution, hashes) ==
    IF hashes = <<>> THEN [self |-> self, tag |-> "Ok", overlap |-> {}]
    ELSE LET hash == Head(hashes)
             other_sig == other_contribution[hash]
         IN IF hash \in DOMAIN self
            THEN LET combined == MultiSignature_combine(self[hash], other_sig) IN
                 IF combined.ok
                 THEN combine_entries([self EXCEPT ![hash] = combined.value],
                                      other_contribution, Tail(hashes))
                 ELSE [self |-> self, tag |-> "Panic", overlap |-> {}]
            ELSE combine_entries(self @@ (hash :> other_sig), other_contribution,
                                 Tail(hashes))

\* combine that puts the entries of other_contribution in place of its own.
combine_replaces(self, other_contribution) ==
    [self |-> [hash \in DOMAIN self \cup DOMAIN other_contribution |->
                  IF hash \in DOMAIN other_contribution
                  THEN other_contribution[hash] ELSE self[hash]],
     tag |-> "Ok", overlap |-> {}]

\* self.combine(&other_contribution): [self |-> self afterwards, tag |-> "Ok",
\* "Overlapping" (with the overlap) or "Panic"].
combine(self, other_contribution) ==
    LET overlap == BitAnd(contributors(self), contributors(other_contribution)) IN
    IF overlap = {}
    THEN combine_entries(self, other_contribution, Entries(other_contribution))
    ELSE [self |-> self, tag |-> "Overlapping", overlap |-> overlap]

\* The aggregation holds three contributions; `result` is what the last
\* combine returned.
Registers == {"a", "b", "c"}
NoResult == [tag |-> "None", overlap |-> {}]

others == <<head, fork, band, can_enforce, staking, is_established, consensus_event_rx,
            blockchain_event_rx, pc, this, executors, votes, published, failed, conversion, history,
            fork_event_rx, network_event_rx, blocks, validated>>

\* A vote arrives (or is cast) and becomes a contribution of its own.
AggregationFromVote ==
    /\ aggregation.result.tag # "Panic"
    /\ \E x \in Registers, proposal_hash \in ProposalHashes, validator_id \in Slots :
          aggregation' = [aggregation EXCEPT ![x] = from_vote(proposal_hash, validator_id),
                                             !.result = NoResult]
    /\ UNCHANGED others

\* One contribution is combined into another.
AggregationCombine ==
    /\ aggregation.result.tag # "Panic"
    /\ \E x \in Registers, y \in Registers :
          /\ x # y
          /\ LET combined == combine(aggregation[x], aggregation[y]) IN
                aggregation' = [aggregation EXCEPT
                                   ![x] = combined.self,
                                   !.result = [tag |-> combined.tag,
                                               overlap |-> combined.overlap]]
    /\ UNCHANGED others

(***************************************************************************)
(* The process stops and a new Validator is constructed over the same       *)
(* storage and chain.                                                       *)
(***************************************************************************)
Restart ==
    /\ \E automatic_reactivate \in BOOLEAN :
          this' = Validator_new(this.database, automatic_reactivate)
    /\ pc' = "consensus"
    /\ consensus_event_rx' = <<>>
    /\ blockchain_event_rx' = <<>>
    /\ is_established' = FALSE
    /\ executors' = FALSE
    /\ fork_event_rx' = <<>>
    /\ network_event_rx' = <<>>
    /\ UNCHANGED <<head, fork, band, can_enforce, staking, votes, published, failed, conversion>>
    /\ UNCHANGED <<history, aggregation, blocks, validated>>

Init ==
    /\ head = 0
    /\ fork = 0
    /\ band \in Bands
    /\ can_enforce \in BOOLEAN
    /\ staking \in StakingViews
    /\ is_established = FALSE
    /\ consensus_event_rx = <<>>
    /\ blockchain_event_rx = <<>>
    /\ pc = "consensus"
    /\ \E automatic_reactivate \in BOOLEAN : this = Validator_new(None, automatic_reactivate)
    /\ executors = FALSE
    /\ votes = {}
    /\ published = {}
    /\ failed = {}
    /\ conversion = NoConversion
    /\ history = {}
    /\ fork_event_rx = <<>>
    /\ network_event_rx = <<>>
    /\ blocks = [hash \in Hashes |-> {}]
    /\ validated = <<>>
    /\ aggregation = [a |-> from_vote(None, 0), b |-> from_vote(None, 1),
                      c |-> from_vote(None, 2), result |-> NoResult]

Next ==
    \/ BlockchainPush
    \/ BlockchainPushStaking
    \/ BlockchainRebranch
    \/ BlockchainHistoryAdopted
    \/ BlockchainStored
    \/ ConsensusEvent
    \/ ConsensusStreamError
    \/ PollConsensusOk
    \/ PollConsensusErr
    \/ PollConsensusPending
    \/ PollBlockchainEvent
    \/ PollBlockchainPending
    \/ PollMacroUpdate
    \/ MacroProducerVote
    \/ MacroProducerStep
    \/ PollMacroDecision
    \/ PollMacroPending
    \/ PollMicroBlock
    \/ PollMicroPending
    \/ PollStakingCheck
    \/ Wake
    \/ MempoolTask
    \/ PublishTask
    \/ ReactivateTask
    \/ Restart
    \/ BlockchainPushReactivate
    \/ SetAutomaticReactivate
    \/ BlockchainPushProofs
    \/ BlockchainRebranchProofs
    \/ BlockchainRebranchChains
    \/ ConsensusStreamClosed
    \/ ForkDetected
    \/ ForkStreamError
    \/ NetworkEvent
    \/ PollConsensusEnded
    \/ PollForkEvent
    \/ PollForkErr
    \/ PollForkPending
    \/ MacroProducerProposal
    \/ PollMacroProposal
    \/ PollNetworkEvent
    \/ PollNetworkPending
    \/ DhtTask
    \/ AggregationFromVote
    \/ AggregationCombine

Spec == Init /\ [][Next]_vars


(***************************************************************************)
(* Specifications.  Spec lets every collaborator act.  The others keep the  *)
(* whole poll pass and restrict what the collaborators do.                  *)
(***************************************************************************)
StakedActive ==
    [complete |-> TRUE, registered |-> TRUE, inactive |-> FALSE, jailed_from |-> None]

\* Sync gating: every consensus and blockchain event, from an actively staked
\* validator; the producers never get to yield.
InitGating ==
    /\ Init
    /\ staking = StakedActive
    /\ this.automatic_reactivate

NextGating ==
    \/ BlockchainPush
    \/ BlockchainRebranch
    \/ BlockchainHistoryAdopted
    \/ BlockchainStored
    \/ ConsensusEvent
    \/ ConsensusStreamError
    \/ PollConsensusOk
    \/ PollConsensusErr
    \/ PollConsensusPending
    \/ PollBlockchainEvent
    \/ PollBlockchainPending
    \/ PollMacroPending
    \/ PollMicroPending
    \/ PollStakingCheck
    \/ Wake
    \/ MempoolTask

SpecGating == InitGating /\ [][NextGating]_vars

(***************************************************************************)
(* Sync gating (validator.rs 317-387, 443-488).                             *)
(***************************************************************************)
HasProducer(s) == IsSome(s.macro_producer) \/ IsSome(s.micro_producer)

HeadEvents == {"Extended", "Finalized", "EpochFinalized", "Rebranched"}

HeadEventPending ==
    \E i \in 1..Len(blockchain_event_rx) : blockchain_event_rx[i].type \in HeadEvents

KindMatchesHead(s) ==
    HasProducer(s) =>
        /\ IsSome(s.macro_producer) <=> BlockTypeOf(head + 1) = "Macro"
        /\ IsSome(s.micro_producer) <=> BlockTypeOf(head + 1) = "Micro"

T1(s) ==
    /\ HasProducer(s) <=> (is_synced(s) /\ is_elected(s))
    /\ KindMatchesHead(s)

\* C1 as stated, for the blockchain events that re-initialise the producer:
\* after such an event is processed, a producer exists iff is_synced and
\* is_elected, and its kind is that of block head + 1.
C1_AsStated ==
    [][(PollBlockchainEvent /\ Head(blockchain_event_rx).type \in HeadEvents)
          => T1(this')]_vars

\* C1 (amended): a producer exists only if is_synced and is_elected; a
\* producer is the macro producer exactly when the height it was built for
\* is a macro height; and once no Extended, Finalized, EpochFinalized or
\* Rebranched event is pending, is_synced and is_elected imply that a
\* producer exists and that it is the one for head + 1.
C1_SyncGating ==
    /\ HasProducer(this) => (is_synced(this) /\ is_elected(this))
    /\ IsSome(this.macro_producer) =>
          BlockTypeOf(Unwrap(this.macro_producer).bn) = "Macro"
    /\ IsSome(this.micro_producer) =>
          BlockTypeOf(Unwrap(this.micro_producer).bn) = "Micro"
    /\ (is_synced(this) /\ is_elected(this) /\ ~HeadEventPending) =>
          /\ HasProducer(this)
          /\ IsSome(this.macro_producer) => Unwrap(this.macro_producer).bn = head + 1
          /\ IsSome(this.micro_producer) => Unwrap(this.micro_producer).bn = head + 1

C1_Witness ==
    /\ is_synced(this) /\ is_elected(this) /\ ~HeadEventPending
    /\ head = 3
    /\ IsSome(this.macro_producer)
    /\ Unwrap(this.macro_producer).bn = 4

\* C2: the macro producer and the micro producer are never both present.
C2_AtMostOneProducer ==
    ~(IsSome(this.macro_producer) /\ IsSome(this.micro_producer))

C2_Witness ==
    /\ head = 2
    /\ IsSome(this.micro_producer) /\ Unwrap(this.micro_producer).bn = 3
    /\ ~IsSome(this.macro_producer)

\* C3: while not synced there is no producer, no slot band and the mempool
\* is marked inactive; while synced the mempool is marked active; the step
\* that loses sync clears producers and slot band and spawns the stop of the
\* mempool executors.
C3_NotSynced ==
    /\ [](~is_synced(this) =>
            /\ ~HasProducer(this)
            /\ this.slot_band = None
            /\ ~this.mempool_active)
    /\ [](is_synced(this) => this.mempool_active)
    /\ [][(is_synced(this) /\ ~is_synced(this') /\ ~Restart) =>
            /\ ~HasProducer(this')
            /\ this'.slot_band = None
            /\ this'.mempool_tasks = Append(this.mempool_tasks, "stop")]_vars

C3_Witness ==
    /\ ~is_synced(this)
    /\ this.mempool_tasks = <<"stop">>
    /\ executors

\* C4: the consensus event that takes the validator from not synced to
\* synced leaves the slot band at the band of the current validator set and
\* the start of the mempool executors spawned; an elected validator then has
\* the producer of head + 1, of the kind of that height, and no other; a
\* validator that is not elected has none.
C4_ColdStart ==
    [][(PollConsensusOk /\ ~is_synced(this) /\ is_synced(this')) =>
          /\ this'.slot_band = band
          /\ this'.mempool_active
          /\ this'.mempool_tasks = Append(this.mempool_tasks, "start")
          /\ IF IsSome(band)
             THEN IF BlockTypeOf(head + 1) = "Micro"
                  THEN /\ IsSome(this'.micro_producer)
                       /\ Unwrap(this'.micro_producer).bn = head + 1
                       /\ ~IsSome(this'.macro_producer)
                  ELSE /\ IsSome(this'.macro_producer)
                       /\ Unwrap(this'.macro_producer).bn = head + 1
                       /\ ~IsSome(this'.micro_producer)
             ELSE ~HasProducer(this')]_vars

C4_Witness ==
    /\ head = 0
    /\ is_synced(this)
    /\ this.slot_band = Some(SlotBand)
    /\ this.mempool_tasks = <<"start">>
    /\ IsSome(this.micro_producer) /\ Unwrap(this.micro_producer).bn = 1
    /\ ~IsSome(this.macro_producer)


(***************************************************************************)
(* Macro round state: an elected, actively staked validator whose macro     *)
(* producer checkpoints and votes, with blocks pushed by other validators   *)
(* and the process restarting at any moment.                                *)
(***************************************************************************)
InitMacro ==
    /\ Init
    /\ band = Some(SlotBand)
    /\ staking = StakedActive
    /\ this.automatic_reactivate

NextMacro ==
    \/ BlockchainPush
    \/ ConsensusEvent
    \/ PollConsensusOk
    \/ PollConsensusPending
    \/ PollBlockchainEvent
    \/ PollBlockchainPending
    \/ PollMacroUpdate
    \/ MacroProducerVote
    \/ MacroProducerStep
    \/ PollMacroPending
    \/ PollMicroPending
    \/ PollStakingCheck
    \/ Wake
    \/ MempoolTask
    \/ Restart

SpecMacro == InitMacro /\ [][NextMacro]_vars

\* The table holds a MacroState at least as far as the vote: of a later
\* height, or of the same height and no earlier checkpoint.
PersistedCovers(vote) ==
    /\ IsSome(this.database)
    /\ \/ Unwrap(this.database).block_number > vote.block_number
       \/ /\ Unwrap(this.database).block_number = vote.block_number
          /\ Unwrap(this.database).step >= vote.step

\* C5: every vote sent from a checkpoint the producer reached by an Update
\* is covered by the persisted MacroState, and a macro producer (also one
\* built after a restart) is never at an earlier checkpoint than a vote
\* already sent for its height.
C5_CrashSafety ==
    /\ \A vote \in votes : vote.step > 0 => PersistedCovers(vote)
    /\ IsSome(this.macro_producer) =>
          \A vote \in votes :
              vote.block_number = Unwrap(this.macro_producer).bn =>
                  vote.step <= Unwrap(this.macro_producer).step

C5_Witness ==
    /\ [block_number |-> 2, step |-> 2] \in votes
    /\ ~this.consensus_established
    /\ this.macro_state = Some([block_number |-> 2, step |-> 2])
    /\ pc = "consensus"
    /\ head = 1

\* C6: an Update for block head + 1 replaces the persisted record and the
\* in-memory MacroState; any other Update changes neither; and the record
\* changes in no other way.
C6_UpdateHandling ==
    /\ [][PollMacroUpdate =>
            LET producer == Unwrap(this.macro_producer)
                update == [block_number |-> producer.bn, step |-> producer.step]
            IN IF update.block_number = head + 1
               THEN /\ this'.database = Some(update)
                    /\ this'.macro_state = Some(update)
               ELSE /\ this'.database = this.database
                    /\ this'.macro_state = this.macro_state]_vars
    /\ [][this'.database # this.database =>
            /\ IsSome(this'.database)
            /\ Unwrap(this'.database).block_number = head + 1]_vars

C6_Witness ==
    /\ this.database = Some([block_number |-> 2, step |-> 1])
    /\ head = 4
    /\ IsSome(this.macro_producer)
    /\ Unwrap(this.macro_producer).bn = 4
    /\ Unwrap(this.macro_producer).step = 1
    /\ ~Unwrap(this.macro_producer).dirty

StakedInactive ==
    [complete |-> TRUE, registered |-> TRUE, inactive |-> TRUE, jailed_from |-> None]

InitProduce ==
    /\ Init
    /\ band = Some(SlotBand)
    /\ staking = StakedInactive
    /\ this.automatic_reactivate

NextProduce ==
    \/ BlockchainPush
    \/ ConsensusEvent
    \/ PollConsensusOk
    \/ PollConsensusPending
    \/ PollBlockchainEvent
    \/ PollBlockchainPending
    \/ PollMacroUpdate
    \/ MacroProducerStep
    \/ PollMacroDecision
    \/ PollMacroPending
    \/ PollMicroBlock
    \/ PollMicroPending
    \/ PollStakingCheck
    \/ Wake
    \/ MempoolTask
    \/ PublishTask
    \/ ReactivateTask

SpecProduce == InitProduce /\ [][NextProduce]_vars

\* The step spawns the task that publishes `block`.
Publishes(block) ==
    this'.publish_tasks = Append(this.publish_tasks, [block |-> block, stage |-> 0])

\* The table holds a MacroState of height n.
PersistedFor(n) ==
    IsSome(this.database) /\ Unwrap(this.database).block_number = n

BlockCall(block) == [topic |-> "BlockTopic", block |-> block]
HeaderCall(block) == [topic |-> "BlockHeaderTopic", block |-> block]

PushFrame ==
    /\ IsSome(this'.macro_producer) = IsSome(this.macro_producer)
    /\ IsSome(this'.micro_producer) = IsSome(this.micro_producer)
    /\ IsSome(this.macro_producer) =>
          Unwrap(this'.macro_producer).bn = Unwrap(this.macro_producer).bn
    /\ IsSome(this.micro_producer) =>
          Unwrap(this'.micro_producer).bn = Unwrap(this.micro_producer).bn
    /\ this'.slot_band = this.slot_band
    /\ this'.consensus_established = this.consensus_established
    /\ this'.validity_window_synced = this.validity_window_synced
    /\ this'.validator_state = this.validator_state
    /\ this'.macro_state = this.macro_state
    /\ this'.database = this.database
    /\ this'.mempool_active = this.mempool_active
    /\ this'.mempool_tasks = this.mempool_tasks
    /\ this'.reactivate_tasks = this.reactivate_tasks

\* C9: the step that handles a locally produced block spawns its publish
\* task exactly when the push changed the chain (Extended: a new head
\* number; Rebranched: a new head at the same number); otherwise it spawns
\* nothing, the chain and its pending events are as before, and the
\* producers, slot band, consensus state and reactivation state are kept.
C9_PublishIffPushed ==
    [][\A block \in {MacroBlock(n) : n \in 1..MaxHead} \cup {MicroBlock(n) : n \in 1..MaxHead} :
          ((IF block.ty = "Macro"
            THEN PollMacroDecision /\ Unwrap(this.macro_producer).bn = block.bn
            ELSE PollMicroBlock /\ Unwrap(this.micro_producer).bn = block.bn)
           => IF head' # head \/ fork' # fork
              THEN Publishes(block)
              ELSE /\ this'.publish_tasks = this.publish_tasks
                   /\ blockchain_event_rx' = blockchain_event_rx
                   /\ published' = published
                   /\ PushFrame)]_vars

C9_Witness ==
    /\ head = 0
    /\ IsSome(this.micro_producer)
    /\ Unwrap(this.micro_producer).done
    /\ IsSome(this.validator_state)
    /\ this.publish_tasks = <<>>
    /\ published = {}
    /\ blockchain_event_rx = <<>>

\* C10: a block is on BlockHeaderTopic only after the same block, with its
\* body, has been on BlockTopic; what BlockTopic carries has its body; a
\* micro block on BlockHeaderTopic has none, a macro block has it.
C10_PublishOrdering ==
    \A call \in published :
        /\ call.topic = "BlockTopic" => IsSome(call.block.body)
        /\ call.topic = "BlockHeaderTopic" =>
              /\ BlockCall([call.block EXCEPT !.body = Some("body")]) \in published
              /\ IsSome(call.block.body) = (call.block.ty = "Macro")

C10_Witness ==
    /\ BlockCall(MicroBlock(1)) \in published
    /\ HeaderCall([MicroBlock(1) EXCEPT !.body = None]) \in published
    /\ BlockCall(MacroBlock(2)) \in published
    /\ HeaderCall(MacroBlock(2)) \in published

(***************************************************************************)
(* Vote aggregation: contributions built from votes and combined in any     *)
(* order, the orchestrator standing still.                                  *)
(***************************************************************************)
InitAggregation ==
    /\ Init
    /\ band = Some(SlotBand)
    /\ can_enforce
    /\ staking = StakedActive
    /\ this.automatic_reactivate

NextAggregation ==
    \/ AggregationFromVote
    \/ AggregationCombine

SpecAggregation == InitAggregation /\ [][NextAggregation]_vars

\* The slot indices that contribute anywhere in the contribution.
Contributing(contribution) ==
    UNION {contribution[hash].signers : hash \in DOMAIN contribution}

\* C16: combine returns Overlapping exactly when the two contributions have
\* a contributing slot in common, with exactly the common slots as the
\* overlap, and Ok otherwise.
C16_AsStated ==
    \A x \in Registers, y \in Registers :
        (x # y /\ aggregation.result.tag # "Panic") =>
            LET combined == combine(aggregation[x], aggregation[y])
                common == Contributing(aggregation[x]) \cap Contributing(aggregation[y])
            IN IF common # {}
               THEN combined.tag = "Overlapping" /\ combined.overlap = common
               ELSE combined.tag = "Ok"

\* C18: for pairwise non-overlapping a, b, c the three orders of combining
\* succeed and give the same contribution: the same proposal hashes with,
\* per hash, the same signers and the same bag of signatures.
C18_CombineCommutesAssociates ==
    LET a == aggregation.a
        b == aggregation.b
        c == aggregation.c
    IN (/\ Contributing(a) \cap Contributing(b) = {}
        /\ Contributing(b) \cap Contributing(c) = {}
        /\ Contributing(a) \cap Contributing(c) = {})
       => LET ab == combine(a, b)
              bc == combine(b, c)
              ca == combine(c, a)
              ab_c == combine(ab.self, c)
              a_bc == combine(a, bc.self)
              ca_b == combine(ca.self, b)
          IN /\ \A r \in {ab, bc, ca, ab_c, a_bc, ca_b} : r.tag = "Ok"
             /\ ab_c.self = a_bc.self
             /\ ab_c.self = ca_b.self

C18_Witness ==
    /\ aggregation.a = from_vote(None, 0)
    /\ aggregation.b = from_vote(None, 1)
    /\ aggregation.c = from_vote(Some("h1"), 2)
    /\ LET ab_c == combine(combine(aggregation.a, aggregation.b).self, aggregation.c) IN
          /\ ab_c.tag = "Ok"
          /\ DOMAIN ab_c.self = ProposalHashes
          /\ ab_c.self[None].signers = {0, 1}
          /\ ab_c.self[None].signature[<<0, None>>] = 1
          /\ ab_c.self[None].signature[<<1, None>>] = 1
          /\ ab_c.self[Some("h1")].signers = {2}

\* C19: contributors() is the union of the signers of all entries.
C19_AsStated ==
    \A x \in Registers :
        contributors(aggregation[x]) = Contributing(aggregation[x])

\* C20: in a contribution built from votes by successful combines each slot
\* index is a signer of at most one entry.
C20_AsStated ==
    aggregation.result.tag # "Panic" =>
        \A x \in Registers, slot \in Slots :
            Cardinality({hash \in DOMAIN aggregation[x] :
                            slot \in aggregation[x][hash].signers}) <= 1


(***************************************************************************)
(* Auto-reactivation: the staking record changes with the blocks pushed,    *)
(* the reactivation transaction sent may get into a block, sync is gained   *)
(* and lost, the producers run, and automatic_reactivate is switched.       *)
(***************************************************************************)
InitReactivate ==
    /\ Init
    /\ can_enforce

NextReactivate ==
    \/ BlockchainPush
    \/ BlockchainPushStaking
    \/ BlockchainPushReactivate
    \/ ConsensusEvent
    \/ PollConsensusOk
    \/ PollConsensusPending
    \/ PollBlockchainEvent
    \/ PollBlockchainPending
    \/ PollMacroPending
    \/ PollMicroPending
    \/ PollStakingCheck
    \/ Wake
    \/ MempoolTask
    \/ ReactivateTask
    \/ SetAutomaticReactivate

SpecReactivate == InitReactivate /\ [][NextReactivate]_vars

InFlight == IsSome(this.validator_state)


Start == Unwrap(this.validator_state).inactive_tx_validity_window_start

\* A reactivation transaction is built and handed to the broadcast task.
Broadcasts == Len(this.reactivate_tasks') > Len(this.reactivate_tasks)

\* This step is the staking check of a poll pass.
StakingCheckRuns == pc = "staking" /\ pc' \in {"network", "pending"}

JailOver ==
    IsSome(get_staking_state.jailed_from)
        => head >= block_after_jail(Unwrap(get_staking_state.jailed_from))

\* What the staking check must see to reactivate.
Eligible ==
    /\ is_synced(this)
    /\ get_staking_state.tag = "Inactive"
    /\ JailOver
    /\ this.automatic_reactivate
    /\ ~InFlight

\* The validity window of the recorded transaction has passed without it.
Expired ==
    /\ InFlight
    /\ head >= Start + blocks_per_epoch
    /\ ~InWindow(this)

SyncEdge == ~is_synced(this) /\ is_established /\ can_enforce

\* This step runs init_epoch: the poll takes an EpochFinalized event, or a
\* consensus or macro block event on which the validator becomes synced.
EpochFinalizedRuns ==
    /\ pc = "blockchain" /\ blockchain_event_rx # <<>>
    /\ blockchain_event_rx' = Tail(blockchain_event_rx)
    /\ Head(blockchain_event_rx).type = "EpochFinalized"

SyncEdgeRuns ==
    /\ SyncEdge
    /\ \/ /\ pc = "consensus" /\ consensus_event_rx # <<>>
          /\ Head(consensus_event_rx) = "Ok"
          /\ consensus_event_rx' = Tail(consensus_event_rx)
       \/ /\ pc = "blockchain" /\ blockchain_event_rx # <<>>
          /\ blockchain_event_rx' = Tail(blockchain_event_rx)
          /\ Head(blockchain_event_rx).type \in {"Finalized", "EpochFinalized"}

InitEpochRuns == EpochFinalizedRuns \/ SyncEdgeRuns

\* C11: there is one InactivityState at most, and while it is in flight no
\* reactivation transaction is broadcast and it stays the one recorded: a
\* broadcast happens only with none in flight and records one, and the
\* recorded state goes away only when a synced staking check sees Active or
\* when its validity window has passed (block_number >= start +
\* blocks_per_epoch) without the transaction being in the history.
C11_ReactivationIdempotence ==
    [][ /\ Broadcasts => ~InFlight /\ InFlight'
        /\ InFlight /\ InFlight' => this.validator_state' = this.validator_state
        /\ InFlight /\ ~InFlight' =>
              \/ is_synced(this) /\ get_staking_state.tag = "Active"
              \/ head >= Start + blocks_per_epoch /\ ~InWindow(this) ]_vars

\* A pass has run its staking check with the validator synced, inactive and
\* automatic_reactivate set, blocks after the transaction was recorded and
\* sent, and has broadcast nothing.
C11_Witness ==
    /\ pc = "pending"
    /\ InFlight /\ Start < head
    /\ this.reactivate_tasks = <<>>
    /\ is_synced(this) /\ get_staking_state.tag = "Inactive" /\ JailOver
    /\ this.automatic_reactivate

\* C12: a reactivation transaction is broadcast only by the staking check of
\* a pass that sees the validator synced, Inactive, not jailed or past
\* block_after_jail, automatic_reactivate set and no InactivityState in flight.
C12_BroadcastOnlyIf ==
    [][Broadcasts => StakingCheckRuns /\ Eligible]_vars

\* A jailed validator's reactivation has been broadcast at its release block.
C12_Witness ==
    /\ this.reactivate_tasks # <<>>
    /\ staking.jailed_from = Some(JailedFrom)
    /\ head = block_after_jail(JailedFrom)
    /\ InFlight /\ Start = head

\* C13: a staking check that sees the validator synced, Inactive, released,
\* automatic_reactivate set and nothing in flight hands exactly one
\* transaction to the broadcast in that pass, with fee 0 and validity start
\* the current block number, and records its hash and that block number.
C13_ReactivatesInPass ==
    [][StakingCheckRuns /\ Eligible =>
         LET transaction == ReactivateTransaction(head) IN
         /\ this.reactivate_tasks' = Append(this.reactivate_tasks, transaction)
         /\ transaction.fee = 0
         /\ transaction.validity_start_height = head
         /\ this.validator_state' =
               Some([inactive_tx_hash |-> TxHash(transaction),
                     inactive_tx_validity_window_start |-> head])]_vars

\* The pass has ended with the transaction of the current block spawned and
\* recorded, at a block after genesis.
C13_Witness ==
    /\ pc = "pending"
    /\ head > 0
    /\ this.reactivate_tasks = <<ReactivateTransaction(head)>>
    /\ InFlight /\ Start = head
    /\ Unwrap(this.validator_state).inactive_tx_hash = TxHash(ReactivateTransaction(head))

\* C14 as stated: whenever init_epoch runs with an InactivityState in flight
\* whose validity window has passed and whose transaction is not in the
\* history window, the InactivityState is cleared.
C14_AsStated ==
    [][InitEpochRuns /\ Expired => ~InFlight']_vars

\* C14: whenever init_epoch runs while the validator is synced and its
\* staking status is Inactive, with an InactivityState in flight whose
\* validity window has passed and whose transaction is not in the history
\* window, the InactivityState is cleared.
C14_ClearsExpired ==
    [][ /\ (EpochFinalizedRuns /\ is_synced(this)) \/ SyncEdgeRuns
        /\ get_staking_state.tag = "Inactive"
        /\ Expired
        => ~InFlight' ]_vars

\* The poll is about to take the EpochFinalized event of the block that ends
\* the validity window of a recorded transaction that no block has included.
C14_Witness ==
    /\ pc = "blockchain" /\ blockchain_event_rx # <<>>
    /\ Head(blockchain_event_rx).type = "EpochFinalized"
    /\ is_synced(this)
    /\ get_staking_state.tag = "Inactive"
    /\ Expired
    /\ this.reactivate_tasks = <<>>


(***************************************************************************)
(* Auto-reactivation of an elected validator that produces micro blocks:    *)
(* its reactivation gets into a block, the chain is extended and            *)
(* rebranched, and sync is lost and regained.                               *)
(***************************************************************************)
InitReactivated ==
    /\ Init
    /\ band = Some(SlotBand)
    /\ can_enforce
    /\ staking = StakedInactive
    /\ this.automatic_reactivate

NextReactivated ==
    \/ BlockchainPush
    \/ BlockchainPushReactivate
    \/ BlockchainRebranch
    \/ ConsensusEvent
    \/ PollConsensusOk
    \/ PollConsensusPending
    \/ PollBlockchainEvent
    \/ PollBlockchainPending
    \/ PollMacroPending
    \/ PollMicroBlock
    \/ PollMicroPending
    \/ PollStakingCheck
    \/ Wake
    \/ MempoolTask
    \/ PublishTask
    \/ ReactivateTask

SpecReactivated == InitReactivated /\ [][NextReactivated]_vars


\* C15: a staking check that runs while synced and sees Active with an
\* InactivityState recorded clears it in that pass, and no step clears the
\* InactivityState but that one and an init_epoch that finds the validity
\* window passed without the transaction: losing sync, pause, Extended,
\* Rebranched and the producers' events leave it as it is.
C15_ClearedOnlyByActiveOrWindow ==
    [][ /\ StakingCheckRuns /\ is_synced(this) /\ get_staking_state.tag = "Active"
           => ~InFlight'
        /\ InFlight /\ ~InFlight' =>
              \/ StakingCheckRuns /\ is_synced(this) /\ get_staking_state.tag = "Active"
              \/ InitEpochRuns /\ get_staking_state.tag = "Inactive" /\ Expired ]_vars

\* The reactivation has got into a block and a pass that saw the validator
\* synced and active has dropped the record of it.
C15_Witness ==
    /\ pc = "pending"
    /\ ~InFlight
    /\ history # {}
    /\ is_synced(this)
    /\ get_staking_state.tag = "Active"

(***************************************************************************)
(* The equivocation proof pool: fork events fill it, blocks consume its     *)
(* proofs, rebranches restore them.                                         *)
(***************************************************************************)
InitFork ==
    /\ Init
    /\ band = Some(SlotBand)
    /\ can_enforce
    /\ staking = StakedActive
    /\ this.automatic_reactivate

NextFork ==
    \/ BlockchainPushProofs
    \/ BlockchainRebranchProofs
    \/ ConsensusEvent
    \/ ForkDetected
    \/ PollConsensusOk
    \/ PollConsensusPending
    \/ PollBlockchainEvent
    \/ PollBlockchainPending
    \/ PollForkEvent
    \/ PollForkPending
    \/ PollMacroPending
    \/ PollMicroBlock
    \/ PollMicroPending
    \/ PollStakingCheck
    \/ Wake
    \/ MempoolTask
    \/ PublishTask

SpecFork == InitFork /\ [][NextFork]_vars

\* The validator is built on a chain that has its third block at the head; the
\* micro blocks of the chain carry proofs the history store holds.
InitRebranch ==
    /\ head = 3
    /\ fork = 0
    /\ band = Some(SlotBand)
    /\ can_enforce = TRUE
    /\ staking = StakedActive
    /\ is_established = FALSE
    /\ consensus_event_rx = <<>>
    /\ blockchain_event_rx = <<>>
    /\ pc = "consensus"
    /\ this = Validator_new(None, TRUE)
    /\ executors = FALSE
    /\ votes = {}
    /\ published = {}
    /\ failed = {}
    /\ conversion = NoConversion
    /\ fork_event_rx = <<>>
    /\ network_event_rx = <<>>
    /\ \E proofs \in SUBSET Proofs :
          /\ blocks = [hash \in Hashes |-> IF hash = <<3, 0>> THEN proofs ELSE {}]
          /\ history \in {HistoryOf(proofs \cup below) : below \in SUBSET (Proofs \ proofs)}
    /\ validated = <<>>
    /\ aggregation = [a |-> from_vote(None, 0), b |-> from_vote(None, 1),
                      c |-> from_vote(None, 2), result |-> NoResult]

NextRebranch ==
    \/ BlockchainRebranchChains
    \/ ConsensusEvent
    \/ PollConsensusOk
    \/ PollConsensusPending
    \/ PollBlockchainEvent
    \/ PollBlockchainPending
    \/ PollMacroPending
    \/ PollStakingCheck
    \/ Wake
    \/ MempoolTask

SpecRebranch == InitRebranch /\ [][NextRebranch]_vars

\* The step handles the Rebranched event at the head of the blockchain stream.
RebranchedRuns ==
    /\ pc = "blockchain"
    /\ blockchain_event_rx # <<>>
    /\ Head(blockchain_event_rx).type = "Rebranched"
    /\ blockchain_event_rx' = Tail(blockchain_event_rx)

LocatorsOf(proofs) == {proof.locator : proof \in proofs}

\* C21: handling Rebranched(old, new) leaves the pool with its prior proofs
\* and the proofs of the old chain, less the proofs of the new chain: every
\* block of the old chain is reverted before any block of the new chain is
\* applied, in one step.  The mempool is updated with (new, old) if and only
\* if the validator is synced, and the block producer is the one
\* init_block_producer gives for the last block of the new chain.
C21_RebranchedRevertsThenApplies ==
    [][RebranchedRuns =>
         LET event == Head(blockchain_event_rx)
             pool == this.equivocation_proofs
             restored == pool \cup {proof \in ProofsOf(event.old_chain) :
                                      proof.locator \notin LocatorsOf(pool)}
             handled == on_blockchain_event(this, event, InWindow(this))
             last == event.new_chain[Len(event.new_chain)].hash
         IN /\ this'.equivocation_proofs =
                  {proof \in restored :
                      proof.locator \notin LocatorsOf(ProofsOf(event.new_chain))}
            /\ handled.mempool_calls =
                  (IF is_synced(this)
                   THEN <<[op |-> "update", adopted |-> BlockHashes(event.new_chain),
                           reverted |-> BlockHashes(event.old_chain)]>>
                   ELSE <<>>)
            /\ this' = mempool_executes(handled)
            /\ init_block_producer(this', Some(last)) = this'
            /\ (IsSome(this'.macro_producer) \/ IsSome(this'.micro_producer))
                  <=> (is_elected(this) /\ is_synced(this) /\ HeadHash = last)
    ]_vars

\* The Rebranched event of the empty pool with old = [A, B] carrying p1 and
\* p2 and new = [A', B', C'] with A' carrying p1 is about to be handled.
C21_Witness ==
    /\ pc = "blockchain"
    /\ blockchain_event_rx # <<>>
    /\ Head(blockchain_event_rx).type = "Rebranched"
    /\ this.equivocation_proofs = {}
    /\ LET event == Head(blockchain_event_rx) IN
          /\ Len(event.old_chain) = 2 /\ Len(event.new_chain) = 3
          /\ LocatorsOf(event.old_chain[1].proofs) = {1}
          /\ LocatorsOf(event.old_chain[2].proofs) = {2}
          /\ LocatorsOf(event.new_chain[1].proofs) = {1}
          /\ event.new_chain[2].proofs = {} /\ event.new_chain[3].proofs = {}
          /\ on_blockchain_event(this, event, InWindow(this)).equivocation_proofs
                = {proof \in Proofs : proof.locator = 2}
    /\ is_synced(this)

Reverse(seq) == [i \in 1..Len(seq) |-> seq[Len(seq) + 1 - i]]

\* The pool after the blocks of `chain_blocks` are applied in order and then
\* reverted in the opposite order.
ApplyThenRevert(pool, chain_blocks) ==
    revert_blocks(apply_blocks(pool, chain_blocks), Reverse(chain_blocks))

RECURSIVE serialized_size(_)
serialized_size(proofs) ==
    IF proofs = <<>> THEN 0 ELSE Head(proofs).size + serialized_size(Tail(proofs))

\* C23: the proofs handed to a micro producer have a total serialized size of
\* at most EQUIVOCATION_PROOFS_MAX_SIZE, and a micro producer that a step
\* creates (it has not produced its block) has the proofs selected from the
\* pool with that limit.
C23_ProofsWithinLimit ==
    [][IsSome(this'.micro_producer) =>
         LET producer == Unwrap(this'.micro_producer) IN
           /\ serialized_size(producer.equivocation_proofs) <= EQUIVOCATION_PROOFS_MAX_SIZE
           /\ (this'.micro_producer # this.micro_producer /\ ~producer.done) =>
                 producer.equivocation_proofs =
                    get_equivocation_proofs_for_block(this'.equivocation_proofs,
                                                      EQUIVOCATION_PROOFS_MAX_SIZE)
    ]_vars

\* The pool holds more than the limit allows, and the micro producer was given
\* the proof with the lowest locator only.
C23_Witness ==
    /\ this.equivocation_proofs = Proofs
    /\ serialized_size(get_equivocation_proofs_for_block(Proofs, 2 * EQUIVOCATION_PROOFS_MAX_SIZE))
          > EQUIVOCATION_PROOFS_MAX_SIZE
    /\ IsSome(this.micro_producer)
    /\ LocatorsOf(Range(Unwrap(this.micro_producer).equivocation_proofs)) = {1}

\* The step handles the fork event at the head of the fork stream.
ForkEventRuns ==
    /\ pc = "fork"
    /\ fork_event_rx # <<>>
    /\ Head(fork_event_rx).ok
    /\ fork_event_rx' = Tail(fork_event_rx)

\* C24: a fork event puts its proof into the pool only if consensus is
\* established when the event is handled and the history store has no proof at
\* the proof's locator; otherwise the pool is unchanged and the event is gone.
\* Whether the validity window is synced plays no role, and nothing but the
\* pool changes.
C24_ForkProofInserted ==
    [][ForkEventRuns =>
         LET proof == Head(fork_event_rx).proof
             pool == this.equivocation_proofs
         IN /\ this'.equivocation_proofs =
                  (IF /\ is_established
                      /\ ~has_equivocation_proof(proof.locator)
                      /\ proof.locator \notin LocatorsOf(pool)
                   THEN pool \cup {proof}
                   ELSE pool)
            /\ this' = [this EXCEPT !.equivocation_proofs = this'.equivocation_proofs]
            /\ pc' = "fork"
    ]_vars

\* A fork event is about to be handled with consensus established, the
\* validity window not synced and no proof at its locator in the history store
\* or in the pool.
C24_Witness ==
    /\ pc = "fork"
    /\ fork_event_rx # <<>>
    /\ Head(fork_event_rx).ok
    /\ is_established
    /\ ~this.validity_window_synced
    /\ ~has_equivocation_proof(Head(fork_event_rx).proof.locator)
    /\ Head(fork_event_rx).proof \notin this.equivocation_proofs
    /\ \E locator \in Locators : has_equivocation_proof(locator)

(***************************************************************************)
(* The macro producer's proposal events and their acknowledgements.         *)
(***************************************************************************)
InitProposal ==
    /\ Init
    /\ band = Some(SlotBand)
    /\ can_enforce
    /\ staking = StakedActive
    /\ this.automatic_reactivate

NextProposal ==
    \/ BlockchainPush
    \/ ConsensusEvent
    \/ PollConsensusOk
    \/ PollConsensusPending
    \/ PollBlockchainEvent
    \/ PollBlockchainPending
    \/ PollMacroUpdate
    \/ MacroProducerStep
    \/ MacroProducerProposal
    \/ PollMacroProposal
    \/ PollMacroPending
    \/ PollMicroPending
    \/ PollStakingCheck
    \/ Wake
    \/ MempoolTask

SpecProposal == InitProposal /\ [][NextProposal]_vars

(***************************************************************************)
(* One pass of poll over all its streams.                                   *)
(***************************************************************************)
InitPoll ==
    /\ Init
    /\ band = Some(SlotBand)
    /\ can_enforce
    /\ staking = StakedActive
    /\ this.automatic_reactivate

NextPoll ==
    \/ BlockchainPush
    \/ ConsensusEvent
    \/ ForkDetected
    \/ NetworkEvent
    \/ PollConsensusOk
    \/ PollConsensusPending
    \/ PollBlockchainEvent
    \/ PollBlockchainPending
    \/ PollForkEvent
    \/ PollForkPending
    \/ PollMacroPending
    \/ PollMicroPending
    \/ PollStakingCheck
    \/ PollNetworkEvent
    \/ PollNetworkPending
    \/ Wake
    \/ MempoolTask
    \/ DhtTask

SpecPoll == InitPoll /\ [][NextPoll]_vars

(***************************************************************************)
(* The consensus event stream with its errors and its end.                  *)
(***************************************************************************)
InitClosed ==
    /\ Init
    /\ staking = StakedActive
    /\ this.automatic_reactivate

NextClosed ==
    \/ BlockchainPush
    \/ ConsensusEvent
    \/ ConsensusStreamError
    \/ ConsensusStreamClosed
    \/ PollConsensusOk
    \/ PollConsensusErr
    \/ PollConsensusEnded
    \/ PollConsensusPending
    \/ PollBlockchainEvent
    \/ PollBlockchainPending
    \/ PollMacroPending
    \/ PollMicroPending
    \/ PollStakingCheck
    \/ Wake
    \/ MempoolTask

SpecClosed == InitClosed /\ [][NextClosed]_vars

(***************************************************************************)
(* What a pass leaves behind: the fork stream with its errors.              *)
(***************************************************************************)
InitDrain ==
    /\ Init
    /\ band = Some(SlotBand)
    /\ can_enforce
    /\ staking = StakedActive
    /\ this.automatic_reactivate

NextDrain ==
    \/ BlockchainPush
    \/ ConsensusEvent
    \/ ForkDetected
    \/ ForkStreamError
    \/ PollConsensusOk
    \/ PollConsensusPending
    \/ PollBlockchainEvent
    \/ PollBlockchainPending
    \/ PollForkEvent
    \/ PollForkErr
    \/ PollForkPending
    \/ PollMacroPending
    \/ PollMicroPending
    \/ PollStakingCheck
    \/ Wake
    \/ MempoolTask

SpecDrain == InitDrain /\ [][NextDrain]_vars

\* The stages of a pass, in the order of poll's text.
Stages == <<"consensus", "blockchain", "fork", "macro", "micro", "staking", "network",
            "pending">>

Rank(stage) == CHOOSE i \in DOMAIN Stages : Stages[i] = stage

\* The loop of `stage` ends: its stream has nothing ready that the loop takes.
LoopEnds(stage) ==
    CASE stage = "consensus" ->
            consensus_event_rx = <<>> \/ Head(consensus_event_rx) = "End"
      [] stage = "blockchain" -> blockchain_event_rx = <<>>
      [] stage = "fork" -> fork_event_rx = <<>> \/ ~Head(fork_event_rx).ok
      [] stage = "network" -> network_event_rx = <<>>
      [] OTHER -> TRUE

\* The pass goes by `stage` without a step of its own.
PassesBy(stage) ==
    CASE stage = "fork" -> fork_event_rx = <<>>
      [] stage = "macro" ->
            ~(is_synced(this) /\ is_elected(this) /\ IsSome(this.macro_producer))
      [] stage = "micro" ->
            ~(is_synced(this) /\ is_elected(this) /\ IsSome(this.micro_producer))
      [] stage = "network" -> network_event_rx = <<>>
      [] OTHER -> FALSE

\* C25: a pass handles its streams in the order consensus, blockchain, fork,
\* macro producer, micro producer, staking check, network: an event of a
\* stream is taken only at the stage of the stream, and the pass leaves a
\* stage for a later one only when the loop of the stage has ended and every
\* stage between the two has nothing to handle.
C25_FixedOrder ==
    [][/\ pc' # pc =>
            \/ pc = "pending" /\ pc' = "consensus"
            \/ pc = "consensus" /\ pc' = "ready"
            \/ /\ pc' # "ready"
               /\ Rank(pc') > Rank(pc)
               /\ LoopEnds(pc)
               /\ \A i \in (Rank(pc) + 1)..(Rank(pc') - 1) : PassesBy(Stages[i])
       /\ Len(consensus_event_rx') < Len(consensus_event_rx) => pc = "consensus"
       /\ Len(blockchain_event_rx') < Len(blockchain_event_rx) => pc = "blockchain"
       /\ Len(fork_event_rx') < Len(fork_event_rx) => pc = "fork"
       /\ Len(network_event_rx') < Len(network_event_rx) => pc = "network"
       /\ this'.validator_state # this.validator_state =>
             pc \in {"consensus", "blockchain", "staking"}
    ]_vars

\* A pass begins with events ready on all four streams and a micro producer
\* to poll.
C25_Witness ==
    /\ pc = "consensus"
    /\ consensus_event_rx # <<>>
    /\ blockchain_event_rx # <<>>
    /\ fork_event_rx # <<>>
    /\ network_event_rx # <<>>
    /\ is_synced(this) /\ IsSome(this.micro_producer)

\* The step polls the consensus stream and finds it ended.
ConsensusEndSeen ==
    /\ pc = "consensus"
    /\ consensus_event_rx # <<>>
    /\ Head(consensus_event_rx) = "End"
    /\ pc' # pc

\* C26 as stated: when the consensus event stream ends poll returns Ready,
\* and in every other situation poll returns Pending.
C26_AsStated ==
    [][/\ ConsensusEndSeen => pc' = "ready"
       /\ (pc' = "ready" /\ pc # "ready") => ConsensusEndSeen
    ]_vars

\* The step takes the proposal event at the head of the macro producer's
\* ready events.
ProposalRuns ==
    /\ pc = "macro"
    /\ IsSome(this.macro_producer) /\ IsSome(this'.macro_producer)
    /\ Unwrap(this.macro_producer).proposals # <<>>
    /\ Unwrap(this'.macro_producer).proposals = Tail(Unwrap(this.macro_producer).proposals)

AcceptanceOf(outcome) ==
    CASE outcome = "ProposalAccepted" -> "Accept"
      [] outcome = "ProposalIgnored" -> "Ignore"
      [] outcome = "ProposalRejected" -> "Reject"

\* C27: a ProposalAccepted, ProposalIgnored or ProposalRejected event with a
\* message id makes exactly one validate_message call, for that id, with
\* Accept, Ignore or Reject; an event without an id makes none; the event
\* changes nothing of the validator but the producer's ready events, and no
\* other step makes a validate_message call.
C27_ProposalAcknowledged ==
    [][/\ ProposalRuns =>
            LET producer == Unwrap(this.macro_producer)
                event == Head(producer.proposals)
            IN /\ validated' =
                     (IF IsSome(event.id)
                      THEN <<[id |-> Unwrap(event.id),
                              acceptance |-> AcceptanceOf(event.outcome)]>>
                      ELSE <<>>)
               /\ this' = [this EXCEPT !.macro_producer =
                              Some([producer EXCEPT !.proposals = Tail(@)])]
               /\ pc' = pc
       /\ validated' # validated => ProposalRuns
    ]_vars

\* A ProposalRejected event with a message id is about to be taken while the
\* validator holds a MacroState, after an acknowledgement of another kind.
C27_Witness ==
    /\ pc = "macro"
    /\ IsSome(this.macro_producer)
    /\ Unwrap(this.macro_producer).proposals # <<>>
    /\ Head(Unwrap(this.macro_producer).proposals).outcome = "ProposalRejected"
    /\ IsSome(Head(Unwrap(this.macro_producer).proposals).id)
    /\ IsSome(this.macro_state)
    /\ validated # <<>> /\ validated[1].acceptance = "Accept"

\* No write lock of the consensus state is taken and no task is spawned
\* between a read lock of the blockchain and its drop.
RECURSIVE Disciplined(_, _)
Disciplined(trace, reading) ==
    IF trace = <<>> THEN TRUE
    ELSE LET op == Head(trace) IN
         /\ op \in {"consensus_state.write", "spawn"} => ~reading
         /\ Disciplined(Tail(trace),
                        IF op = "blockchain.read" THEN TRUE
                        ELSE IF op = "drop blockchain" THEN FALSE ELSE reading)

\* C28 as stated: on every path the blockchain read guard is dropped before
\* the consensus-state write lock is taken and before a task is spawned: in
\* on_equivocation_proof, in init_epoch and in the staking check.
C28_AsStated ==
    [][/\ (ForkEventRuns /\ is_established) =>
             Disciplined(on_equivocation_proof_locks(Head(fork_event_rx).proof), FALSE)
       /\ SyncEdgeRuns => Disciplined(init_epoch_locks(this'), FALSE)
       /\ StakingCheckRuns => Disciplined(staking_check_locks(this), FALSE)
    ]_vars

\* C29 as stated: a pass drains what is ready on its streams.  When the pass
\* leaves the blockchain, the fork or the network stage, no event is left on
\* the stream of the stage: an error item on the fork stream does not keep the
\* fork events behind it from being handled in the pass.
C29_AsStated ==
    [][/\ (pc = "blockchain" /\ pc' # "blockchain") => blockchain_event_rx' = <<>>
       /\ (pc = "fork" /\ pc' # "fork") =>
             \A i \in DOMAIN fork_event_rx' : ~fork_event_rx'[i].ok
       /\ (pc = "network" /\ pc' # "network") => network_event_rx' = <<>>
    ]_vars

(***************************************************************************)
(* Blockchain events of every kind, handled synced and not synced, with     *)
(* proofs in the blocks.                                                    *)
(***************************************************************************)
InitUnsynced ==
    /\ Init
    /\ band = Some(SlotBand)
    /\ staking = StakedActive
    /\ this.automatic_reactivate

NextUnsynced ==
    \/ BlockchainPush
    \/ BlockchainPushProofs
    \/ BlockchainRebranchProofs
    \/ BlockchainHistoryAdopted
    \/ BlockchainStored
    \/ ConsensusEvent
    \/ PollConsensusOk
    \/ PollConsensusPending
    \/ PollBlockchainEvent
    \/ PollBlockchainPending
    \/ PollMacroPending
    \/ PollMicroPending
    \/ PollStakingCheck
    \/ Wake
    \/ MempoolTask

SpecUnsynced == InitUnsynced /\ [][NextUnsynced]_vars

\* The step handles the blockchain event at the head of the stream.
BlockchainEventRuns ==
    /\ pc = "blockchain"
    /\ blockchain_event_rx # <<>>
    /\ blockchain_event_rx' = Tail(blockchain_event_rx)

\* C30: a blockchain event handled while the validator is not synced makes no
\* mempool call, neither update nor cleanup.  Synced or not, Extended,
\* Finalized and EpochFinalized take the proofs of the block out of the pool
\* and Rebranched restores the proofs of the old chain and takes out those of
\* the new one.  Stored changes nothing of the validator.
C30_UnsyncedNoMempool ==
    [][BlockchainEventRuns =>
         LET event == Head(blockchain_event_rx)
             pool == this.equivocation_proofs
             handled == on_blockchain_event(this, event, InWindow(this))
         IN /\ ~is_synced(this) => handled.mempool_calls = <<>>
            /\ event.type \in {"Extended", "Finalized", "EpochFinalized"} =>
                  this'.equivocation_proofs =
                     {proof \in pool : proof.locator \notin LocatorsOf(blocks[event.hash])}
            /\ event.type = "Rebranched" =>
                  this'.equivocation_proofs =
                     {proof \in pool \cup ProofsOf(event.old_chain) :
                         proof.locator \notin LocatorsOf(ProofsOf(event.new_chain))}
            /\ event.type = "HistoryAdopted" => this'.equivocation_proofs = pool
            /\ event.type = "Stored" => this' = this
    ]_vars

\* An Extended event is about to be handled while the validator is not
\* synced, for a block that carries a proof the pool holds; events of the
\* other kinds wait behind it.
C30_Witness ==
    /\ pc = "blockchain"
    /\ blockchain_event_rx # <<>>
    /\ Head(blockchain_event_rx).type = "Extended"
    /\ ~is_synced(this)
    /\ blocks[Head(blockchain_event_rx).hash] \cap this.equivocation_proofs # {}
    /\ on_blockchain_event(this, Head(blockchain_event_rx), InWindow(this)).equivocation_proofs
          # this.equivocation_proofs

(***************************************************************************)
(* Order of the steps of a macro block event (validator.rs 469-479).        *)
(***************************************************************************)
\* The producer the validator `s` holds, if it holds one.
ProducerOf(s) ==
    IF IsSome(s.macro_producer) THEN Unwrap(s.macro_producer)
    ELSE Unwrap(s.micro_producer)

\* The step handles a Finalized event.
FinalizedRuns ==
    /\ BlockchainEventRuns
    /\ Head(blockchain_event_rx).type = "Finalized"

\* C31: on EpochFinalized(h) init_epoch runs first, then the Extended
\* handling, then the consensus state is recomputed: the Extended handling
\* sees the sync state of before the event (it updates the mempool iff the
\* validator was synced), a producer held after the event is for head + 1 and
\* has the slot band of the validator set the chain has now, and a validator
\* that is not in that set holds no producer.  On Finalized(h) the Extended
\* handling runs before the recomputation too: it updates the mempool iff the
\* validator was synced before the event.
C31_EpochInitFirst ==
    [][ /\ EpochFinalizedRuns =>
            LET event == Head(blockchain_event_rx)
                handled == on_blockchain_event(this, event, InWindow(this))
            IN /\ this'.slot_band = (IF is_synced(this') THEN band ELSE None)
               /\ HasProducer(this') =>
                     /\ ProducerOf(this').slot_band = Unwrap(band)
                     /\ ProducerOf(this').bn = head + 1
                     /\ event.hash = HeadHash
               /\ band = None => ~HasProducer(this')
               /\ (event.hash = HeadHash /\ is_synced(this') /\ IsSome(band))
                     => HasProducer(this')
               /\ (handled.mempool_calls # <<>>) <=> is_synced(this)
        /\ FinalizedRuns =>
            LET event == Head(blockchain_event_rx)
                handled == on_blockchain_event(this, event, InWindow(this))
            IN /\ (handled.mempool_calls # <<>>) <=> is_synced(this)
               /\ this'.consensus_established = is_established
               /\ this'.validity_window_synced = can_enforce
    ]_vars

\* The EpochFinalized event of the head is about to be handled by a synced
\* validator whose slot band is not the one of the new validator set, and the
\* handler leaves a producer for head + 1 with the new band.
C31_Witness ==
    /\ pc = "blockchain"
    /\ blockchain_event_rx # <<>>
    /\ Head(blockchain_event_rx).type = "EpochFinalized"
    /\ Head(blockchain_event_rx).hash = HeadHash
    /\ is_synced(this) /\ can_enforce /\ is_established
    /\ this.slot_band = None /\ IsSome(band)
    /\ LET handled == on_blockchain_event(this, Head(blockchain_event_rx), InWindow(this))
       IN /\ IsSome(handled.micro_producer)
          /\ Unwrap(handled.micro_producer).slot_band = Unwrap(band)

(***************************************************************************)
(* Mempool executors (validator.rs 389-439): sync is established and lost   *)
(* while start/stop_executors tasks of earlier edges wait on the executor,   *)
(* which runs the spawned tasks in any order.                               *)
(***************************************************************************)
InitExecutors ==
    /\ Init
    /\ staking = StakedActive
    /\ this.automatic_reactivate

NextExecutors ==
    \/ BlockchainPush
    \/ ConsensusEvent
    \/ PollConsensusBacklog
    \/ PollConsensusPending
    \/ PollBlockchainEvent
    \/ PollBlockchainPending
    \/ PollMacroPending
    \/ PollMicroPending
    \/ PollStakingCheck
    \/ Wake
    \/ MempoolTask

SpecExecutors == InitExecutors /\ [][NextExecutors]_vars

\* The step spawns a start_executors or a stop_executors task.
Requests == Len(this'.mempool_tasks) > Len(this.mempool_tasks)

\* Requests alternate: a start is spawned on a step from not synced to synced
\* and only then, a stop on a step from synced to not synced and only then,
\* and mempool_active says whether the last request was a start.
StartStopAlternate ==
    [][ /\ this.mempool_active <=> is_synced(this)
        /\ Requests =>
              /\ Len(this'.mempool_tasks) = Len(this.mempool_tasks) + 1
              /\ this'.mempool_tasks[Len(this'.mempool_tasks)] =
                    (IF is_synced(this') THEN "start" ELSE "stop")
        /\ Requests <=> (is_synced(this) # is_synced(this'))
    ]_vars

\* C32: once every spawned start/stop_executors task has run, the mempool
\* executors are running iff the validator is synced.
C32_AsStated ==
    this.mempool_tasks = <<>> => (executors <=> is_synced(this))

(***************************************************************************)
(* Block publication with publish calls that fail (validator.rs 698-728):   *)
(* an active validator produces and pushes its blocks, and the network      *)
(* answers any publish call with Ok or with an error.                       *)
(***************************************************************************)
InitPublish ==
    /\ Init
    /\ band = Some(SlotBand)
    /\ can_enforce = TRUE
    /\ staking = StakedActive
    /\ this.automatic_reactivate

NextPublish ==
    \/ ConsensusEvent
    \/ PollConsensusOk
    \/ PollConsensusPending
    \/ PollBlockchainEvent
    \/ PollBlockchainPending
    \/ PollMacroUpdate
    \/ MacroProducerStep
    \/ PollMacroDecision
    \/ PollMacroPending
    \/ PollMicroBlock
    \/ PollMicroPending
    \/ PollStakingCheck
    \/ Wake
    \/ MempoolTask
    \/ PublishTask
    \/ PublishTaskErr

SpecPublish == InitPublish /\ [][NextPublish]_vars

\* The publish calls the spawned tasks have yet to issue.
RECURSIVE CallsLeft(_)
CallsLeft(tasks) ==
    IF tasks = <<>> THEN 0 ELSE (2 - Head(tasks).stage) + CallsLeft(Tail(tasks))

\* The block of `call` as publish_block was given it.
WithBody(call) == [call.block EXCEPT !.body = Some("body")]

\* A task is about to publish the header of `block`.
HeaderPending(block) ==
    \E i \in 1..Len(this.publish_tasks) :
        this.publish_tasks[i] = [block |-> block, stage |-> 1]

\* C33: the two publications of a block are independent best-effort.  A
\* block whose publication on BlockTopic has failed has its publication on
\* BlockHeaderTopic attempted or still ahead in its task; every publish call,
\* failed or not, is one call less to issue (no retry); and a failing call
\* changes nothing the orchestrator owns: the step leaves the validator's
\* fields, the position of the pass and the streams as they are and takes
\* only the call off the task list.
C33_BestEffortPublication ==
    /\ [](\A call \in failed :
            /\ call \in published
            /\ call.topic = "BlockTopic" =>
                  \/ HeaderPending(call.block)
                  \/ \E other \in published :
                        /\ other.topic = "BlockHeaderTopic"
                        /\ WithBody(other) = call.block)
    /\ [][published' # published \/ failed' # failed =>
            /\ CallsLeft(this'.publish_tasks) = CallsLeft(this.publish_tasks) - 1
            /\ this' = [this EXCEPT !.publish_tasks = this'.publish_tasks]
            /\ UNCHANGED <<pc, executors, votes, env, consensus_event_rx>>
         ]_vars

\* The publication of micro block 1 has failed on BlockTopic and its header
\* has been published all the same; the macro block 2 has failed on
\* BlockHeaderTopic after its publication on BlockTopic.
C33_Witness ==
    /\ BlockCall(MicroBlock(1)) \in failed
    /\ HeaderCall([MicroBlock(1) EXCEPT !.body = None]) \in published \ failed
    /\ BlockCall(MacroBlock(2)) \in published \ failed
    /\ HeaderCall(MacroBlock(2)) \in failed
    /\ this.publish_tasks = <<>>

(***************************************************************************)
(* The DHT record (validator.rs 682-695, 907-916): the network reports       *)
(* DhtReady any number of times, other events and stream errors.            *)
(***************************************************************************)
InitDht ==
    /\ Init
    /\ band = Some(SlotBand)
    /\ can_enforce = TRUE
    /\ staking = StakedActive
    /\ this.automatic_reactivate

NextDht ==
    \/ ConsensusEvent
    \/ NetworkEvent
    \/ NetworkStreamError
    \/ PollConsensusOk
    \/ PollConsensusPending
    \/ PollBlockchainPending
    \/ PollMicroPending
    \/ PollStakingCheck
    \/ PollNetworkBacklog
    \/ PollNetworkPending
    \/ Wake
    \/ MempoolTask
    \/ DhtTask

SpecDht == InitDht /\ [][NextDht]_vars

\* The step takes an item off the network event stream.
NetworkEventRuns ==
    /\ pc = "network"
    /\ network_event_rx # <<>>
    /\ network_event_rx' = Tail(network_event_rx)

\* C34 as stated: the record is set once over the lifetime of the
\* orchestrator, so two tasks that set it never wait together.
C34_AsStated ==
    Len(this.dht_tasks) <= 1

\* C34: a task that sets the DHT record is spawned only by the handling of a
\* DhtReady network event, and every DhtReady handled spawns exactly one
\* (the record is set once per DhtReady reported, not once per lifetime).
\* Any other network event and a stream error leave the validator as it is;
\* no item of the network stream completes the orchestrator: the pass stays
\* in the network loop.
C34_SetPerDhtReady ==
    [][ /\ Len(this'.dht_tasks) > Len(this.dht_tasks) =>
              NetworkEventRuns /\ Head(network_event_rx) = "DhtReady"
        /\ NetworkEventRuns =>
              /\ pc' = "network"
              /\ Head(network_event_rx) = "DhtReady" =>
                    this' = [this EXCEPT !.dht_tasks = Append(@, "set_public_key")]
              /\ Head(network_event_rx) # "DhtReady" => this' = this
    ]_vars

\* The network has reported DhtReady once and the task of it is spawned; an
\* error of the stream and a second DhtReady wait to be handled.
C34_Witness ==
    /\ pc = "network"
    /\ this.dht_tasks = <<"set_public_key">>
    /\ network_event_rx = <<"Err", "DhtReady">>

\* C35: combine never panics: for all contributions built by from_vote and
\* successful combines, a.combine(b) returns Ok or Overlapping and the expect
\* on the MultiSignature merge of a common key is never hit.
C35_AsStated ==
    aggregation.result.tag # "Panic" =>
        \A x \in Registers, y \in Registers :
            x # y => combine(aggregation[x], aggregation[y]).tag \in {"Ok", "Overlapping"}

(***************************************************************************)
(* Producers and obsolete events (validator.rs 317-342, 498-519).           *)
(***************************************************************************)
\* The step handles an Extended, Finalized, EpochFinalized or Rebranched
\* event: the events whose handlers call init_block_producer.
HeadEventRuns ==
    /\ BlockchainEventRuns
    /\ Head(blockchain_event_rx).type \in HeadEvents

\* The step takes a consensus event, on which init may run with no head hash.
ConsensusEventRuns ==
    /\ pc = "consensus" /\ consensus_event_rx # <<>>
    /\ Head(consensus_event_rx) = "Ok"
    /\ consensus_event_rx' = Tail(consensus_event_rx)

\* C36: a producer is constructed only for block number head + 1 of the head
\* the chain has at that moment.  After the handling of an Extended,
\* Finalized, EpochFinalized or Rebranched event a producer is held only if
\* the event was for the current head, and then it is the one for head + 1
\* of the kind of that height; an obsolete event discards the producers held
\* and constructs none.  A producer comes to be held, or is exchanged for one
\* of another height, only in the handling of such an event for the current
\* head or of the consensus event on which the validator becomes synced, and
\* it is for head + 1.
C36_ProducerForHeadPlusOne ==
    [][ /\ HeadEventRuns =>
              LET event == Head(blockchain_event_rx) IN
              /\ event.hash # HeadHash => ~HasProducer(this')
              /\ HasProducer(this') =>
                    /\ ProducerOf(this').bn = head + 1
                    /\ KindMatchesHead(this')
        /\ \A field \in {"macro_producer", "micro_producer"} :
              (/\ IsSome(this'[field])
               /\ IsSome(this[field]) => Unwrap(this'[field]).bn # Unwrap(this[field]).bn)
              => /\ Unwrap(this'[field]).bn = head + 1
                 /\ head' = head /\ fork' = fork
                 /\ \/ HeadEventRuns /\ Head(blockchain_event_rx).hash = HeadHash
                    \/ ConsensusEventRuns /\ ~is_synced(this)
    ]_vars

\* A synced and elected validator that holds a producer is about to handle an
\* Extended event of a block that is not the head any more: the handler
\* discards the producer and leaves none.
C36_Witness ==
    /\ pc = "blockchain"
    /\ blockchain_event_rx # <<>>
    /\ Head(blockchain_event_rx).type = "Extended"
    /\ Head(blockchain_event_rx).hash # HeadHash
    /\ is_synced(this) /\ is_elected(this)
    /\ HasProducer(this)
    /\ ~HasProducer(on_blockchain_event(this, Head(blockchain_event_rx), InWindow(this)))

(***************************************************************************)
(* byte_from_le_bits (nano-sync/src/utils.rs 127-142).  byte and base are   *)
(* u8.  An addition or multiplication that leaves 0..255 panics in a build  *)
(* with overflow checks and wraps modulo 256 in a build without them;       *)
(* `overflowed` records that one has left the range.                        *)
(***************************************************************************)
MaxBits == 8        \* longest input of byte_from_le_bits
U8 == 256

BitVectors == UNION {[1..n -> BOOLEAN] : n \in 0..MaxBits}

\* The loop from index i on (bits[i] is the source's bits[i - 1]).
RECURSIVE byte_from_le_bits_for(_, _, _, _, _, _)
byte_from_le_bits_for(bits, i, byte, base, overflowed, overflow_checks) ==
    IF i > Len(bits)
    THEN [tag |-> "Ok", byte |-> byte, overflowed |-> overflowed]
    ELSE LET sum == IF bits[i] THEN byte + base ELSE byte
             product == base * 2
         IN IF sum >= U8 /\ overflow_checks
            THEN [tag |-> "Panic", byte |-> byte, overflowed |-> TRUE]
            ELSE IF product >= U8 /\ overflow_checks
            THEN [tag |-> "Panic", byte |-> sum % U8, overflowed |-> TRUE]
            ELSE byte_from_le_bits_for(bits, i + 1, sum % U8, product % U8,
                                       overflowed \/ sum >= U8 \/ product >= U8,
                                       overflow_checks)

byte_from_le_bits(bits, overflow_checks) ==
    IF ~(Len(bits) <= 8)
    THEN [tag |-> "Panic", byte |-> 0, overflowed |-> FALSE]
    ELSE byte_from_le_bits_for(bits, 1, 0, 1, FALSE, overflow_checks)

\* byte_from_le_bits is called with the input and in the build chosen.
ByteFromLeBits ==
    /\ conversion.returned = None
    /\ conversion' = [conversion EXCEPT !.returned =
                         Some(byte_from_le_bits(conversion.bits,
                                                conversion.overflow_checks))]
    /\ UNCHANGED <<chain, is_established, consensus_event_rx>>
    /\ UNCHANGED orchestrator
    /\ UNCHANGED <<history, aggregation>>
    /\ UNCHANGED <<fork_event_rx, network_event_rx, blocks, validated>>

\* Any input of up to MaxBits bits, in a build with or without overflow
\* checks; the validator stands still.
InitBits ==
    /\ head = 0
    /\ fork = 0
    /\ band = None
    /\ can_enforce = FALSE
    /\ staking = StakedActive
    /\ is_established = FALSE
    /\ consensus_event_rx = <<>>
    /\ blockchain_event_rx = <<>>
    /\ pc = "consensus"
    /\ this = Validator_new(None, TRUE)
    /\ executors = FALSE
    /\ votes = {}
    /\ published = {}
    /\ failed = {}
    /\ history = {}
    /\ fork_event_rx = <<>>
    /\ network_event_rx = <<>>
    /\ blocks = [hash \in Hashes |-> {}]
    /\ validated = <<>>
    /\ aggregation = [a |-> from_vote(None, 0), b |-> from_vote(None, 1),
                      c |-> from_vote(None, 2), result |-> NoResult]
    /\ \E bits \in BitVectors, overflow_checks \in BOOLEAN :
          conversion = [bits |-> bits, overflow_checks |-> overflow_checks,
                        returned |-> None]

NextBits == ByteFromLeBits

SpecBits == InitBits /\ [][NextBits]_vars

\* The value of little-endian bits: the sum over i of bits[i] * 2^i.
RECURSIVE LeValue(_)
LeValue(bits) ==
    IF bits = <<>> THEN 0
    ELSE (IF Head(bits) THEN 1 ELSE 0) + 2 * LeValue(Tail(bits))

\* When byte_from_le_bits returns, it returns the value of its bits.
ReturnsLeValue ==
    (IsSome(conversion.returned) /\ Unwrap(conversion.returned).tag = "Ok") =>
        Unwrap(conversion.returned).byte = LeValue(conversion.bits)

\* Only the multiplication of the eighth iteration leaves the u8 range.
OverflowsAtEightBits ==
    IsSome(conversion.returned) =>
        (Unwrap(conversion.returned).overflowed <=> Len(conversion.bits) = 8)

\* C37: for every input of 0..8 bits byte_from_le_bits returns the sum over i
\* of bits[i] * 2^i, and no intermediate value of byte or base leaves 0..255.
C37_AsStated ==
    IsSome(conversion.returned) =>
        /\ Unwrap(conversion.returned).tag = "Ok"
        /\ Unwrap(conversion.returned).byte = LeValue(conversion.bits)
        /\ ~Unwrap(conversion.returned).overflowed

====
